---- MODULE Spec2Model ----
(***************************************************************************)
(* django_wikidata_api: the pagination driver (get_all / _get_all / get /  *)
(* search / count), the transport call (_execute_query) and the response   *)
(* decoder (_from_wikidata and the fields' from_wikidata).                 *)
(*                                                                         *)
(* Python values are written as follows.  A str is a sequence of           *)
(* one-character strings, a list or tuple is a sequence, None is the empty *)
(* tuple and every other optional value x is the one-element tuple <<x>>.  *)
(***************************************************************************)
EXTENDS Integers, Sequences, FiniteSets, TLC

----------------------------------------------------------------------------
(* Bounds of the model. *)

\* longest identifier list passed as values
MaxValues == 5
\* largest limit passed by a caller
MaxLimit == 2
\* largest page_size passed by a caller
MaxPageSize == 2
\* largest page number passed by a caller
MaxPage == 2
\* page requests one call may issue before the model stops following it
MaxRequests == 7
\* rows the remote endpoint hands out to one call, over all its pages
MaxTotalRows == 5

----------------------------------------------------------------------------
(* Python's None and optional values. *)

None == <<>>
Some(x) == <<x>>
IsNone(m) == m = <<>>
Val(m) == m[1]

Min(a, b) == IF a <= b THEN a ELSE b

\* values[lo:hi] of Python, 0-based, clipped to the list (lo, hi >= 0)
Slice(s, lo, hi) == SubSeq(s, lo + 1, Min(hi, Len(s)))

----------------------------------------------------------------------------
(* Strings. *)

UpperCase == <<"A", "B", "C", "D", "E", "F", "G", "H", "I", "J", "K", "L", "M", "N", "O", "P", "Q", "R", "S", "T", "U", "V", "W", "X", "Y", "Z">>
LowerCase == <<"a", "b", "c", "d", "e", "f", "g", "h", "i", "j", "k", "l", "m", "n", "o", "p", "q", "r", "s", "t", "u", "v", "w", "x", "y", "z">>
Digits == {"0", "1", "2", "3", "4", "5", "6", "7", "8", "9"}
Whitespace == {" ", "\t", "\n"}

\* str.lower() on one character
LowerChar(c) ==
    IF \E i \in 1..Len(UpperCase) : UpperCase[i] = c
    THEN LowerCase[CHOOSE i \in 1..Len(UpperCase) : UpperCase[i] = c]
    ELSE c

\* str.lower()
Lower(s) == [i \in 1..Len(s) |-> LowerChar(s[i])]

\* t in s, for two str
IsSubstring(t, s) ==
    \E i \in 0..(Len(s) - Len(t)) : SubSeq(s, i + 1, i + Len(t)) = t

\* str.split(sep) for a one-character separator: the parts of s before,
\* between and after the occurrences of sep, in order, empty parts included
Split(s, sep) ==
    LET at == {i \in 1..Len(s) : s[i] = sep}
        n == Cardinality(at)
        \* the place of the k-th occurrence; 0 and Len(s) + 1 stand for the
        \* two ends of s
        place(k) == IF k = 0 THEN 0
                    ELSE IF k = n + 1 THEN Len(s) + 1
                    ELSE CHOOSE i \in at : Cardinality({j \in at : j < i}) = k - 1
    IN  [k \in 1..(n + 1) |-> SubSeq(s, place(k - 1) + 1, place(k) - 1)]

RECURSIVE SplitWhitespaceFrom(_, _)
\* str.split(): runs of whitespace separate, no empty token is produced
SplitWhitespaceFrom(s, cur) ==
    IF s = <<>> THEN (IF cur = <<>> THEN <<>> ELSE <<cur>>)
    ELSE IF Head(s) \in Whitespace
         THEN (IF cur = <<>> THEN <<>> ELSE <<cur>>) \o SplitWhitespaceFrom(Tail(s), <<>>)
         ELSE SplitWhitespaceFrom(Tail(s), Append(cur, Head(s)))

SplitWhitespace(s) == SplitWhitespaceFrom(s, <<>>)

RECURSIVE JoinWith(_, _)
\* sep.join(parts)
JoinWith(parts, sep) ==
    IF parts = <<>> THEN <<>>
    ELSE IF Len(parts) = 1 THEN parts[1]
    ELSE parts[1] \o sep \o JoinWith(Tail(parts), sep)

\* the value of one decimal digit
DigitValue(c) == CHOOSE n \in 0..9 : <<"0", "1", "2", "3", "4", "5", "6", "7", "8", "9">>[n + 1] = c

\* int(s) reading the last digit alone
ParseLastDigit(s) == IF s = <<>> THEN 0 ELSE DigitValue(s[Len(s)])

RECURSIVE ParseInt(_)
\* int(s) for a str of decimal digits
ParseInt(s) ==
    IF s = <<>> THEN 0
    ELSE ParseInt(SubSeq(s, 1, Len(s) - 1)) * 10 + DigitValue(s[Len(s)])

----------------------------------------------------------------------------
(* constants.py *)

WIKIDATA_ENTITY_PREFIX_URL == <<"h", "t", "t", "p", ":", "/", "/", "w", "w", "w", ".", "w", "i", "k", "i", "d", "a", "t", "a", ".", "o", "r", "g", "/", "e", "n", "t", "i", "t", "y", "/">>

\* the end (exclusive, 0-based) of the run of digits that starts at 0-based i
RECURSIVE DigitsEnd(_, _)
DigitsEnd(s, i) == IF i < Len(s) /\ s[i + 1] \in Digits THEN DigitsEnd(s, i + 1) ELSE i

\* the 0-based positions at which WIKIDATA_ENTITY_REGEX, ([Qq])\d+, matches
EntityMatchStarts(s) ==
    {i \in 0..(Len(s) - 2) : s[i + 1] \in {"Q", "q"} /\ s[i + 2] \in Digits}

\* the search string handed back whole, whether the pattern matches or not
ReturnSearchString(search_string, default) == Some(search_string)

\* utils.extract_from_string_by_regex(WIKIDATA_ENTITY_REGEX, search_string, default):
\* re.search takes the leftmost match and \d+ is greedy
extract_from_string_by_regex(search_string, default) ==
    LET starts == EntityMatchStarts(search_string) IN
    IF starts = {} THEN default
    ELSE LET i == CHOOSE k \in starts : \A j \in starts : k <= j
         IN  Some(SubSeq(search_string, i + 1, DigitsEnd(search_string, i + 1)))

----------------------------------------------------------------------------
(* fields.py: the field descriptors, as far as decoding reads them.        *)
(* kind is the field class; default_type is the Python type of default.    *)

WikidataField(name, kind, default, default_type) ==
    [name |-> name, kind |-> kind, default |-> default, default_type |-> default_type,
     separator |-> "|"]

\* the classes whose from_wikidata is WikidataListResponseMixin.from_wikidata
ListKinds == {"WikidataListField", "WikidataAltLabelField", "WikidataEntityListField"}
\* the classes whose from_wikidata is WikidataEntityField.from_wikidata
EntityKinds == {"WikidataEntityField", "WikidataMainEntityField"}
\* the classes that inherit WikidataField.from_wikidata
ScalarKinds == {"WikidataField", "WikidataCharField", "WikidataLabelField",
                "WikidataDescriptionField", "WikidataEntityFilterField",
                "SchemaAboutField", "WikidataConformanceField"}

\* Python truth of an optional str or list
Truthy(m) == ~IsNone(m) /\ Val(m) # <<>>

\* A response row maps a variable to its binding; a binding is Some(value), or
\* None when the binding object carries no 'value' member.
get_wikidata_field(wikidata_response_dict, key, default) ==
    IF key \in DOMAIN wikidata_response_dict
    THEN IF IsNone(wikidata_response_dict[key]) THEN default
         ELSE wikidata_response_dict[key]
    ELSE default

\* WikidataField.from_wikidata
ScalarFromWikidata(field, wikidata_response) ==
    [raised |-> "", value |-> get_wikidata_field(wikidata_response, field.name, field.default)]

\* WikidataListResponseMixin.from_wikidata: field.split(separator) if field else default;
\* a truthy value that is no str (a non-empty list given as default) has no split
ListFromWikidata(field, wikidata_response) ==
    LET bound == field.name \in DOMAIN wikidata_response
                 /\ ~IsNone(wikidata_response[field.name])
        value == get_wikidata_field(wikidata_response, field.name, field.default)
    IN  IF ~Truthy(value) THEN [raised |-> "", value |-> field.default]
        ELSE IF bound \/ field.default_type = "str"
             THEN [raised |-> "", value |-> Some(Split(Val(value), field.separator))]
             ELSE [raised |-> "AttributeError", value |-> None]

\* WikidataEntityField.from_wikidata: re.search on a value that is None raises TypeError
EntityFromWikidata(field, wikidata_response) ==
    LET value == get_wikidata_field(wikidata_response, field.name, field.default)
    IN  IF IsNone(value) THEN [raised |-> "TypeError", value |-> None]
        ELSE [raised |-> "", value |-> extract_from_string_by_regex(Val(value), value)]

\* field.from_wikidata(wikidata_response), by the class of the field
FieldFromWikidata(field, wikidata_response) ==
    IF field.kind \in ListKinds THEN ListFromWikidata(field, wikidata_response)
    ELSE IF field.kind \in EntityKinds THEN EntityFromWikidata(field, wikidata_response)
    ELSE ScalarFromWikidata(field, wikidata_response)

----------------------------------------------------------------------------
(* models.py: WikidataItemBase and its instances. *)

\* the fields of WikidataItemBase, in the order get_wikidata_fields returns them
BaseFields ==
    << WikidataField("main", "WikidataMainEntityField", None, "NoneType"),
       WikidataField("label", "WikidataLabelField", None, "NoneType"),
       WikidataField("description", "WikidataDescriptionField", None, "NoneType"),
       WikidataField("alt_labels", "WikidataAltLabelField", Some(<<>>), "list"),
       WikidataField("conformance", "WikidataConformanceField", None, "NoneType") >>

FieldNames(fields) == {fields[i].name : i \in 1..Len(fields)}

\* cls(): every field key is None, and so are the class attributes id and conformance
NewInstance(fields) == [k \in FieldNames(fields) \cup {"id", "conformance"} |-> None]

\* the instance handed back with its conformance untouched
KeepConformance(obj) == obj

\* WikidataItemBase.set_conformance for a model without schema
set_conformance(obj) ==
    [obj EXCEPT !["conformance"] =
        Some([focus |-> obj["id"], reason |-> "No Schema associated with this model",
              result |-> "n/a"])]

RECURSIVE SetWikidataFields(_, _, _)
\* the loop of _from_wikidata: obj._set_wikidata_field(field, wikidata_response) per field
SetWikidataFields(fields, wikidata_response, obj) ==
    IF fields = <<>> THEN [raised |-> "", obj |-> obj]
    ELSE LET r == FieldFromWikidata(Head(fields), wikidata_response)
         IN  IF r.raised # "" THEN [raised |-> r.raised, obj |-> obj]
             ELSE SetWikidataFields(Tail(fields), wikidata_response,
                                    [obj EXCEPT ![Head(fields).name] = r.value])

\* WikidataItemBase._from_wikidata
FromWikidata(fields, wikidata_response, with_conformance) ==
    LET r == SetWikidataFields(fields, wikidata_response, NewInstance(fields)) IN
    IF r.raised # "" THEN r
    ELSE LET obj == [r.obj EXCEPT !["id"] = r.obj["main"]] IN
         IF ~Truthy(obj["id"]) THEN [raised |-> "AssertionError", obj |-> obj]
         ELSE [raised |-> "", obj |-> IF with_conformance THEN set_conformance(obj) ELSE obj]

----------------------------------------------------------------------------
(* The remote endpoint. *)

\* an entity URI of the endpoint
EntityUri(qid) == WIKIDATA_ENTITY_PREFIX_URL \o qid

\* the response rows of tests/test_models.py, and a second row for Q123 that
\* binds another label and no description
Row1 ==
    [main |-> Some(EntityUri(<<"Q", "1", "2", "3">>)),
     mainLabel |-> Some(<<"T", "e", "s", "t", " ", "I", "t", "e", "m">>),
     label |-> Some(<<"T", "e", "s", "t", " ", "I", "t", "e", "m">>),
     description |-> Some(<<"S", "o", "m", "e", " ", "T", "e", "s", "t", " ", "D", "e", "s", "c", "r", "i", "p", "t", "i", "o", "n">>),
     alt_labels |-> Some(<<>>)]
Row2 ==
    [main |-> Some(EntityUri(<<"Q", "3", "2", "1">>)),
     mainLabel |-> Some(<<"S", "o", "m", "e", " ", "O", "t", "h", "e", "r", " ", "I", "t", "e", "m">>),
     label |-> Some(<<"S", "o", "m", "e", " ", "O", "t", "h", "e", "r", " ", "I", "t", "e", "m">>),
     description |-> Some(<<"S", "o", "m", "e", " ", "O", "t", "h", "e", "r", " ", "T", "e", "s", "t", " ", "D", "e", "s", "c", "r", "i", "p", "t", "i", "o", "n">>),
     alt_labels |-> Some(<<"a", "l", "t", " ", "n", "a", "m", "e", " ", "1", "|", "a", "l", "t", " ", "n", "a", "m", "e", " ", "2">>)]
Row3 ==
    [main |-> Some(EntityUri(<<"Q", "1", "2", "3">>)),
     mainLabel |-> Some(<<"O", "t", "h", "e", "r">>),
     label |-> Some(<<"O", "t", "h", "e", "r">>),
     alt_labels |-> Some(<<>>)]

\* the rows the endpoint can answer an instance query with; an exchange names
\* the rows of its bindings by their place in this table
EndpointRows == <<Row1, Row2, Row3>>

\* the row sequences of at most n rows: a SELECT DISTINCT answer repeats no row
Bindings(n) ==
    UNION {{b \in [1..k -> 1..Len(EndpointRows)] : \A i, j \in 1..k : b[i] = b[j] => i = j}
           : k \in 0..Min(n, Len(EndpointRows))}

\* What one HTTP exchange can come to.  transport: whether requests.get/post
\* returned or raised; status: the HTTP status; json: whether the body parses;
\* top, results, bindings: the JSON type of the body, of its 'results' member
\* and of that member's 'bindings' member ("absent": no such member);
\* rows: the elements of bindings when it is an array, each named by its place
\* in the table of rows the query is answered from.
HttpResponse(transport, status, json, top, results, bindings, rows) ==
    [transport |-> transport, status |-> status, json |-> json, top |-> top,
     results |-> results, bindings |-> bindings, rows |-> rows]

OkResponse(rows) == HttpResponse("ok", 200, TRUE, "object", "object", "array", rows)

\* the exchanges that do not deliver a results.bindings array
BadResponses ==
    { HttpResponse("ConnectionError", 0, FALSE, "null", "absent", "absent", <<>>),
      HttpResponse("ok", 404, TRUE, "object", "absent", "absent", <<>>),
      HttpResponse("ok", 500, FALSE, "null", "absent", "absent", <<>>),
      HttpResponse("ok", 200, FALSE, "null", "absent", "absent", <<>>),
      HttpResponse("ok", 200, TRUE, "array", "absent", "absent", <<>>),
      HttpResponse("ok", 200, TRUE, "null", "absent", "absent", <<>>),
      HttpResponse("ok", 200, TRUE, "object", "absent", "absent", <<>>),
      HttpResponse("ok", 200, TRUE, "object", "null", "absent", <<>>),
      HttpResponse("ok", 200, TRUE, "object", "array", "absent", <<>>),
      HttpResponse("ok", 200, TRUE, "object", "object", "absent", <<>>),
      HttpResponse("ok", 200, TRUE, "object", "object", "null", <<>>) }

\* the answers the pagination driver meets to a query that lets at most n rows
\* through: the rows, and one exchange of each way the driver can fail
HttpResponses(n) ==
    { HttpResponse("ConnectionError", 0, FALSE, "null", "absent", "absent", <<>>),
      HttpResponse("ok", 500, FALSE, "null", "absent", "absent", <<>>),
      HttpResponse("ok", 200, TRUE, "object", "object", "null", <<>>) }
    \cup {OkResponse(b) : b \in Bindings(n)}

----------------------------------------------------------------------------
(* models.py: _execute_query *)

\* Meta.query_max_get_request_length
query_max_get_request_length == 1000
\* len("#Tool: django-wikidata-api\n"), the line _execute_query puts before the query
ToolCommentLength == 27

\* the method, had the length been taken before the tool comment is put in front
RequestMethodByCompiledLength(query_length) ==
    IF query_length < query_max_get_request_length THEN "GET" ELSE "POST"

\* the request method chosen for a compiled query of query_length characters
RequestMethod(query_length) ==
    IF ToolCommentLength + query_length < query_max_get_request_length THEN "GET" ELSE "POST"

\* the try block after the request was sent: "" when it runs through, else
\* the exception raised in it
TryBlockRaises(http) ==
    IF http.transport # "ok" THEN http.transport
    ELSE IF http.status >= 400 THEN "HTTPError"
    ELSE IF ~http.json THEN "JSONDecodeError"
    ELSE IF http.top # "object" THEN "TypeError"
    ELSE IF http.results = "absent" THEN "KeyError"
    ELSE IF http.results # "object" THEN "TypeError"
    ELSE IF http.bindings = "absent" THEN "KeyError"
    ELSE ""

\* the call, had the except clause answered a failure with an empty list
QueryOutcomeSwallowingErrors(http) ==
    [raised |-> "", cause |-> "",
     returned_type |-> IF TryBlockRaises(http) # "" THEN "array" ELSE http.bindings,
     returned |-> IF TryBlockRaises(http) = "" /\ http.bindings # "array"
                  THEN None ELSE Some(http.rows)]

\* what the call comes to once the request was sent: every Exception of the
\* try block leaves as DjangoWikidataAPIException; else
\* response_json['results']['bindings'] is returned as it is (None for a JSON null)
QueryOutcome(http) ==
    IF TryBlockRaises(http) # ""
    THEN [raised |-> "DjangoWikidataAPIException", cause |-> TryBlockRaises(http),
          returned_type |-> "", returned |-> None]
    ELSE [raised |-> "", cause |-> "", returned_type |-> http.bindings,
          returned |-> IF http.bindings = "array" THEN Some(http.rows) ELSE None]

\* the requests one call of _execute_query sends: one, by the method chosen
RequestsSent(query_length, http) ==
    << [method |-> RequestMethod(query_length),
        length |-> ToolCommentLength + query_length] >>

\* _execute_query
ExecuteQuery(query_length, http) ==
    [sent |-> RequestsSent(query_length, http), outcome |-> QueryOutcome(http)]

----------------------------------------------------------------------------
(* models.py: build_query, as the clauses that bound the result *)

\* Python truth of an optional int
TruthyInt(m) == ~IsNone(m) /\ Val(m) # 0

\* build_query: values is the identifier list of the VALUES clause (<<>>: the
\* query has no VALUES clause), limit and offset are the numbers of the LIMIT
\* and OFFSET clauses (None: the query has no such clause)
build_query(values, limit, minimal, offset, count) ==
    [values |-> IF Truthy(values) THEN Val(values) ELSE <<>>,
     limit |-> IF TruthyInt(limit) THEN limit ELSE None,
     offset |-> IF TruthyInt(offset) THEN offset ELSE None,
     minimal |-> (count \/ minimal),
     count |-> count]

\* the rows a query can be answered with at most: its LIMIT, if it has one
RowCap(query, left) == IF IsNone(query.limit) THEN left ELSE Min(Val(query.limit), left)

----------------------------------------------------------------------------
(* Decoded instances.  The state names an instance by the row it was decoded  *)
(* from and by whether conformance was asked for; Obj gives its attributes.   *)

RECURSIVE FromWikidataRows(_, _)
\* cls._from_wikidata(item, with_conformance) of WikidataItemBase, for each of
\* the first n rows of the endpoint
FromWikidataRows(n, with_conformance) ==
    IF n = 0 THEN <<>>
    ELSE Append(FromWikidataRows(n - 1, with_conformance),
                FromWikidata(BaseFields, EndpointRows[n], with_conformance))

DecodedPlain == FromWikidataRows(Len(EndpointRows), FALSE)
DecodedWithConformance == FromWikidataRows(Len(EndpointRows), TRUE)

\* what _from_wikidata makes of row i: the exception it raises, or the instance
DecodedRow(i, with_conformance) ==
    IF with_conformance THEN DecodedWithConformance[i] ELSE DecodedPlain[i]

\* the name of the instance decoded from row i
Instance(i, with_conformance) == [row |-> i, with_conformance |-> with_conformance]
\* the attributes of a named instance
Obj(item) == DecodedRow(item.row, item.with_conformance).obj

----------------------------------------------------------------------------
(* models.py: _merge_duplicates, and search's filter *)

RECURSIVE MergeFrom(_, _, _)
\* the loop of _merge_duplicates: kept is qid_to_item.values() in insertion
\* order, logged the qids of the "Need To Merge QIDs" debug lines
MergeFrom(items, kept, logged) ==
    IF items = <<>> THEN [kept |-> kept, logged |-> logged]
    ELSE LET item == Head(items) IN
         IF \E i \in 1..Len(kept) : Obj(kept[i])["id"] = Obj(item)["id"]
         THEN MergeFrom(Tail(items), kept, Append(logged, Obj(item)["id"]))
         ELSE MergeFrom(Tail(items), Append(kept, item), logged)

\* WikidataItemBase._merge_duplicates
MergeDuplicates(items) == MergeFrom(items, <<>>, <<>>)

StrNone == <<"N", "o", "n", "e">>
OdictValuesOpen == <<"o", "d", "i", "c", "t", "_", "v", "a", "l", "u", "e", "s", "(", "[">>
OdictValuesClose == <<"]", ")">>

\* repr() of a str without quotes or escapes
ReprStr(s) == <<"'">> \o s \o <<"'">>
\* repr() of an optional str
ReprOptStr(m) == IF IsNone(m) THEN StrNone ELSE ReprStr(Val(m))
\* repr() of an optional list of str
ReprOptList(m) ==
    IF IsNone(m) THEN StrNone
    ELSE <<"[">> \o JoinWith([i \in 1..Len(Val(m)) |-> ReprStr(Val(m)[i])], <<",", " ">>)
         \o <<"]">>

\* str(self._get_public_dict().values()) for an instance of WikidataItemBase:
\* the serializer data holds id, label, description, alt_labels and
\* conformance, in this order; conformance is None on every instance search
\* looks at, because search never asks for it
PublicValuesText(obj) ==
    OdictValuesOpen
    \o JoinWith(<< ReprOptStr(obj["id"]), ReprOptStr(obj["label"]),
                   ReprOptStr(obj["description"]), ReprOptList(obj["alt_labels"]),
                   StrNone >>, <<",", " ">>)
    \o OdictValuesClose

\* the match, had the needle been looked for as one phrase
dict_has_phrase(haystack_text, needle) == IsSubstring(Lower(needle), Lower(haystack_text))

\* utils.dict_has_substring(haystack, needle), haystack_text being str(haystack.values())
dict_has_substring(haystack_text, needle) ==
    LET tokens == SplitWhitespace(Lower(needle)) IN
    \A i \in 1..Len(tokens) : IsSubstring(tokens[i], Lower(haystack_text))

\* WikidataItemBase._has_substring
HasSubstring(item, substring) == dict_has_substring(PublicValuesText(Obj(item)), substring)

\* the list comprehension of search
SearchFilter(objs, search_string) ==
    SelectSeq(objs, LAMBDA obj : HasSubstring(obj, search_string))

----------------------------------------------------------------------------
(* models.py: the locals of _get_all *)

\* Meta.default_page_size
default_page_size == 100

\* single_page = isinstance(page, int)
SinglePage(page_arg) == ~IsNone(page_arg)
\* page_size = page_size or cls.Meta.default_page_size
PageSize(page_size_arg) == IF TruthyInt(page_size_arg) THEN Val(page_size_arg) ELSE default_page_size
\* unknown_depth = not values
UnknownDepth(values) == ~Truthy(values)
\* page = page or 1
FirstPage(page_arg) == IF TruthyInt(page_arg) THEN Val(page_arg) ELSE 1
\* value_total = len(values) if values else None
ValueTotal(values) == IF Truthy(values) THEN Some(Len(Val(values))) ELSE None

\* remaining_limit before the loop
InitialRemainingLimit(limit, values) ==
    IF TruthyInt(ValueTotal(values))
    THEN IF TruthyInt(limit) THEN Some(Min(Val(limit), Val(ValueTotal(values))))
         ELSE ValueTotal(values)
    ELSE limit

\* the offset, had every page been asked for at the start of the result
OffsetOfFirstPage(page_no, page_size) == 0

\* the offset, had pages been counted from 0
OffsetFromPageZero(page_no, page_size) == page_no * page_size

\* offset = (page - 1) * page_size
Offset(page_no, page_size) == (page_no - 1) * page_size

\* query_limit = min(remaining_limit, page_size) if limit else page_size
QueryLimit(limit, remaining, page_size) ==
    IF TruthyInt(limit) THEN Min(Val(remaining), page_size) ELSE page_size

\* query_values: the slice of values, or values itself when it is empty or None
QueryValues(values, offset, query_limit) ==
    IF Truthy(values) THEN Some(Slice(Val(values), offset, offset + query_limit)) ELSE values

\* query_offset, had the offset been passed on with values too
QueryOffsetOfPage(values, offset) == offset

\* query_offset: 0 with values, else offset
QueryOffset(values, offset) == IF Truthy(values) THEN 0 ELSE offset

\* the query one iteration of the loop has _query_wikidata build
PageQuery(a, page_no, remaining) ==
    LET offset == Offset(page_no, PageSize(a.page_size))
        query_limit == QueryLimit(a.limit, remaining, PageSize(a.page_size))
    IN  build_query(QueryValues(a.values, offset, query_limit), Some(query_limit),
                    a.minimal, Some(QueryOffset(a.values, offset)), FALSE)

\* if remaining_limit: remaining_limit -= api_count
NextRemainingLimit(remaining, api_count) ==
    IF TruthyInt(remaining) THEN Some(Val(remaining) - api_count) ELSE remaining

\* finished, had the length of the identifier list not been looked at
FinishedIgnoringValueTotal(a, offset, api_count, remaining) ==
    \/ SinglePage(a.page)
    \/ UnknownDepth(a.values) /\ api_count = 0
    \/ ~IsNone(remaining) /\ Val(remaining) <= 0

\* finished, as assigned at the end of an iteration
Finished(a, offset, api_count, remaining) ==
    \/ SinglePage(a.page)
    \/ UnknownDepth(a.values) /\ api_count = 0
    \/ ~IsNone(remaining) /\ Val(remaining) <= 0
    \/ TruthyInt(ValueTotal(a.values)) /\ offset >= Val(ValueTotal(a.values))

\* the rows of a page decoded last row first
DecodeRowsLastFirst(rows, with_conformance, objs) ==
    [raised |-> "",
     objs |-> objs \o [i \in 1..Len(rows) |->
                          Instance(rows[Len(rows) + 1 - i], with_conformance)]]

RECURSIVE DecodeRows(_, _, _)
\* for item in wikidata_response: yield cls._from_wikidata(item, with_conformance)
DecodeRows(rows, with_conformance, objs) ==
    IF rows = <<>> THEN [raised |-> "", objs |-> objs]
    ELSE LET r == DecodedRow(Head(rows), with_conformance) IN
         IF r.raised # "" THEN [raised |-> r.raised, objs |-> objs]
         ELSE DecodeRows(Tail(rows), with_conformance,
                         Append(objs, Instance(Head(rows), with_conformance)))

\* what get_all returned, had it never merged
GetAllResultUnmerged(page_arg, objs) == objs

\* what get_all returns from the instances the generator produced
GetAllResult(page_arg, objs) ==
    IF SinglePage(page_arg) THEN objs ELSE MergeDuplicates(objs).kept

----------------------------------------------------------------------------
(* The state. *)

VARIABLES
    op,               \* the classmethod called: get_all, search, get or count
    pc,               \* idle, running, returned or raised
    args,             \* the arguments of the call
    page,             \* _get_all's page
    remaining_limit,  \* _get_all's remaining_limit
    finished,         \* _get_all's finished
    items,            \* the instances the generator has yielded, by name
    requests,         \* the queries issued, in order
    responses,        \* the HTTP exchange of each query
    result,           \* the value returned
    exception,        \* the exception that left the call
    merge_log,        \* the qids of the "Need To Merge QIDs" lines logged
    exec_call,        \* the last direct call of _execute_query: its query and exchange
    exec_result,      \* what that call sent and came to
    decode_call,      \* the last direct call of _from_wikidata: model, row, flag
    decode_result,    \* what that call raised or returned
    created,          \* the instance cls() that call started from
    field_call,       \* the last direct call of field.from_wikidata: field and row
    field_result,     \* what that call raised or returned
    query_call,       \* the last direct call of build_query: model fields and arguments
    query_result,     \* what that call raised, or the words of the compiled query
    filter_call,      \* the field whose filter fragments were last rendered directly
    filter_result,    \* the fragments: to_wikidata_filter and to_wikidata_outer_filter
    declared,         \* the field a subclass of WikidataItemBase declares as "extra"
    field_objs,       \* the attributes of each field object that calls assign
    wikidata_fields,  \* cls._wikidata_fields of each class: its (key, field) pairs
    fields_call,      \* the last call on a class or on a field object
    fields_result     \* what that call raised or returned

driverVars == <<op, pc, args, page, remaining_limit, finished, items, requests, responses,
                result, exception, merge_log>>
execVars == <<exec_call, exec_result>>
decodeVars == <<decode_call, decode_result, created, field_call, field_result>>
queryVars == <<query_call, query_result, filter_call, filter_result>>
fieldVars == <<declared, field_objs, wikidata_fields, fields_call, fields_result>>
vars == <<driverVars, execVars, decodeVars, queryVars, fieldVars>>

\* the classes: WikidataItemBase, and a subclass that declares extra, its
\* own label and _note
Classes == {"WikidataItemBase", "ItemSubclass"}

\* the field objects: the five class attributes of WikidataItemBase
\* (models.py:65-73) and the three of the subclass
FieldObjects ==
    {"main", "label", "description", "alt_labels", "conformance",
     "extra", "own_label", "_note"}

\* the attributes of a field object that are assigned after its constructor
\* returned: name and public by set_name, wikidata_filter by the filter of
\* an entity field; as the constructor leaves them
NewFieldObject == [name |-> None, public |-> None, wikidata_filter |-> None]

\* the identifier "Q<i>"
Qid(i) == <<"Q", <<"0", "1", "2", "3", "4", "5", "6", "7", "8", "9">>[i + 1]>>
\* the identifier list ("Q1", ..., "Q<n>")
Identifiers(n) == [i \in 1..n |-> Qid(i)]

PageArgs == {None} \cup {Some(p) : p \in 0..MaxPage}
LimitArgs == {None} \cup {Some(l) : l \in 0..MaxLimit}
PageSizeArgs == {None} \cup {Some(s) : s \in 1..MaxPageSize}
ValuesArgs == {None} \cup {Some(Identifiers(n)) : n \in 0..MaxValues}
\* minimal and with_conformance as the callers pass them: both left at their
\* default, or both set
FlagArgs == {[minimal |-> b, with_conformance |-> b] : b \in BOOLEAN}

RECURSIVE RowsServed(_)
\* the rows the endpoint has handed out over the exchanges so far
RowsServed(https) ==
    IF https = <<>> THEN 0 ELSE Len(Head(https).rows) + RowsServed(Tail(https))

NoArgs ==
    [page |-> None, limit |-> None, page_size |-> None, values |-> None, minimal |-> FALSE,
     with_conformance |-> FALSE, search_string |-> <<>>, entity_id |-> <<>>]

Init ==
    /\ op = "none"
    /\ pc = "idle"
    /\ args = NoArgs
    /\ page = 1
    /\ remaining_limit = None
    /\ finished = FALSE
    /\ items = <<>>
    /\ requests = <<>>
    /\ responses = <<>>
    /\ result = None
    /\ exception = ""
    /\ merge_log = <<>>
    /\ exec_call = None
    /\ exec_result = None
    /\ decode_call = None
    /\ decode_result = None
    /\ created = None
    /\ field_call = None
    /\ field_result = None
    /\ query_call = None
    /\ query_result = None
    /\ filter_call = None
    /\ filter_result = None
    /\ declared = None
    /\ field_objs = [o \in FieldObjects |-> NewFieldObject]
    /\ wikidata_fields = [c \in Classes |-> None]
    /\ fields_call = None
    /\ fields_result = None

\* get_all(page, limit=, page_size=, values=, minimal=, with_conformance=) is
\* called and _get_all runs up to its loop
CallGetAll ==
    /\ pc = "idle"
    /\ \E p \in PageArgs, l \in LimitArgs, s \in PageSizeArgs, v \in ValuesArgs,
          f \in FlagArgs :
          /\ args' = [NoArgs EXCEPT !.page = p, !.limit = l, !.page_size = s, !.values = v,
                                    !.minimal = f.minimal,
                                    !.with_conformance = f.with_conformance]
          /\ page' = FirstPage(p)
          /\ remaining_limit' = InitialRemainingLimit(l, v)
    /\ op' = "get_all"
    /\ pc' = "running"
    /\ finished' = FALSE
    /\ UNCHANGED <<items, requests, responses, result, exception, merge_log>>
    /\ UNCHANGED <<execVars, decodeVars, queryVars, fieldVars>>

\* the strings search is called with
SearchStrings ==
    { <<"s", "o", "m", "e", " ", "o", "t", "h", "e", "r", " ", "i", "t", "e", "m">>,
      <<"S", "o", "m", "e", " ", "O", "t", "h", "e", "r", " ", "i", "t", "e", "m">>,
      <<"i", "t", "e", "m", " ", " ", "o", "t", "h", "e", "r">>,
      <<"s", "o", "m", "e", "t", "h", "i", "n", "g">>,
      <<"Q", "3", "2", "1">>,
      <<"a", "l", "t", " ", "n", "a", "m", "e", " ", "2">>,
      <<>> }

\* search(search_string) is called: get_all(page=None, minimal=False) starts
CallSearch ==
    /\ pc = "idle"
    /\ \E s \in SearchStrings : args' = [NoArgs EXCEPT !.search_string = s]
    /\ op' = "search"
    /\ pc' = "running"
    /\ page' = FirstPage(None)
    /\ remaining_limit' = InitialRemainingLimit(None, None)
    /\ finished' = FALSE
    /\ UNCHANGED <<items, requests, responses, result, exception, merge_log>>
    /\ UNCHANGED <<execVars, decodeVars, queryVars, fieldVars>>

\* One iteration of _get_all's loop, with the exchange http: the query is
\* issued; a failed query, a response that cannot be iterated or a row that
\* cannot be decoded ends the call with the exception; else the rows are
\* yielded, finished is assigned, and when it is true get_all (or search)
\* returns.
FetchPage ==
    /\ pc = "running"
    /\ ~finished
    /\ Len(requests) < MaxRequests
    /\ LET page_size == PageSize(args.page_size)
           offset == Offset(page, page_size)
           query == PageQuery(args, page, remaining_limit)
       IN  \E http \in HttpResponses(RowCap(query, MaxTotalRows - RowsServed(responses))) :
           LET out == QueryOutcome(http)
               rows == IF IsNone(out.returned) THEN <<>> ELSE Val(out.returned)
               decoded == DecodeRows(rows, args.with_conformance, <<>>)
               error == IF out.raised # "" THEN out.raised
                        ELSE IF out.returned_type # "array" THEN "TypeError"
                        ELSE decoded.raised
               api_count == Len(rows)
               remaining == NextRemainingLimit(remaining_limit, api_count)
               done == Finished(args, offset, api_count, remaining)
               yielded == items \o decoded.objs
               collection == GetAllResult(args.page, yielded)
           IN  /\ requests' = Append(requests, query)
               /\ responses' = Append(responses, http)
               /\ items' = yielded
               /\ IF error # ""
                  THEN /\ pc' = "raised"
                       /\ exception' = error
                       /\ UNCHANGED <<page, remaining_limit, finished, result, merge_log>>
                  ELSE /\ remaining_limit' = remaining
                       /\ finished' = done
                       /\ page' = page + 1
                       /\ exception' = ""
                       /\ pc' = IF done THEN "returned" ELSE "running"
                       /\ result' = IF ~done THEN None
                                    ELSE IF op = "search"
                                         THEN Some(SearchFilter(collection, args.search_string))
                                         ELSE Some(collection)
                       /\ merge_log' = IF done /\ ~SinglePage(args.page)
                                       THEN MergeDuplicates(yielded).logged
                                       ELSE merge_log
    /\ UNCHANGED <<op, args>>
    /\ UNCHANGED <<execVars, decodeVars, queryVars, fieldVars>>

\* wikidata_response[-1]
LastRow(wikidata_response) == wikidata_response[Len(wikidata_response)]

\* wikidata_response[0]
FirstRow(wikidata_response) == wikidata_response[1]

\* the identifiers get is called with
EntityIds == {<<"Q", "1", "2", "3">>, <<"Q", "3", "2", "1">>, <<"Q", "1">>}

\* get(entity_id, with_conformance): one query for (entity_id,), then the
\* first row decoded, or None
Get ==
    /\ pc = "idle"
    /\ \E e \in EntityIds, c \in BOOLEAN, http \in BadResponses \cup HttpResponses(MaxTotalRows) :
          LET query == build_query(Some(<<e>>), None, FALSE, None, FALSE)
              out == QueryOutcome(http)
              found == Truthy(out.returned)
              first == DecodedRow(FirstRow(Val(out.returned)), c)
              error == IF out.raised # "" THEN out.raised
                       ELSE IF found THEN first.raised ELSE ""
          IN  /\ args' = [NoArgs EXCEPT !.entity_id = e, !.with_conformance = c]
              /\ requests' = <<query>>
              /\ responses' = <<http>>
              /\ exception' = error
              /\ pc' = IF error # "" THEN "raised" ELSE "returned"
              /\ result' = IF error = "" /\ found
                           THEN Some(Instance(FirstRow(Val(out.returned)), c)) ELSE None
    /\ op' = "get"
    /\ UNCHANGED <<page, remaining_limit, finished, items, merge_log>>
    /\ UNCHANGED <<execVars, decodeVars, queryVars, fieldVars>>

\* the rows a count query is answered with: a count of digits, a count binding
\* without value, a row that binds no count
CountRows ==
    << [count |-> Some(<<"1", "0", "0">>)], [count |-> Some(<<"0">>)], [count |-> Some(<<"7">>)],
       [count |-> Some(<<>>)], [count |-> None], [main |-> Some(<<"Q", "1">>)] >>

\* the answers to a count query: no row, one row, or two
CountResponses ==
    BadResponses \cup {OkResponse(<<>>)}
    \cup {OkResponse(<<r>>) : r \in 1..Len(CountRows)}
    \cup {OkResponse(<<r, q>>) : r \in 1..Len(CountRows), q \in 1..Len(CountRows)}

\* int(wikidata_response[0].get('count', {}).get('value') or 0)
CountValue(row) ==
    LET value == get_wikidata_field(row, "count", None)
    IN  IF Truthy(value) THEN ParseInt(Val(value)) ELSE 0

\* count(): one query with count=True, then the count of the first row, or 0
Count ==
    /\ pc = "idle"
    /\ \E http \in CountResponses :
          LET query == build_query(None, None, FALSE, None, TRUE)
              out == QueryOutcome(http)
          IN  /\ requests' = <<query>>
              /\ responses' = <<http>>
              /\ exception' = out.raised
              /\ pc' = IF out.raised # "" THEN "raised" ELSE "returned"
              /\ result' = IF out.raised # "" THEN None
                           ELSE IF Truthy(out.returned)
                                THEN Some(CountValue(CountRows[FirstRow(Val(out.returned))]))
                           ELSE Some(0)
    /\ op' = "count"
    /\ args' = NoArgs
    /\ UNCHANGED <<page, remaining_limit, finished, items, merge_log>>
    /\ UNCHANGED <<execVars, decodeVars, queryVars, fieldVars>>

Next == CallGetAll \/ CallSearch \/ FetchPage \/ Get \/ Count

Spec == Init /\ [][Next]_vars

----------------------------------------------------------------------------
(* _execute_query called directly. *)

\* the lengths of the compiled queries _execute_query is called with:
\* "test" and "a" * 1500 of tests/test_models.py, and the lengths around the
\* two places where the method could change
QueryLengths == {0, 4, 972, 973, 974, 999, 1000, 1001, 1500}

\* the exchanges a direct call meets
ExecResponses == BadResponses \cup {OkResponse(b) : b \in Bindings(Len(EndpointRows))}

\* _execute_query(query) for a query of n characters, answered by h
CallExecuteQuery ==
    /\ IsNone(exec_call)
    /\ \E n \in QueryLengths, h \in ExecResponses :
          /\ exec_call' = Some([query_length |-> n, http |-> h])
          /\ exec_result' = Some(ExecuteQuery(n, h))
    /\ UNCHANGED <<driverVars, decodeVars, queryVars, fieldVars>>

NextExec == CallExecuteQuery

SpecExec == Init /\ [][NextExec]_vars

----------------------------------------------------------------------------
(* _from_wikidata called directly, on models that add one field to the       *)
(* fields of WikidataItemBase.                                               *)

\* the field a model adds under the name "extra": one of each class that
\* decodes, with the defaults the constructors allow
ExtraFields ==
    { WikidataField("extra", "WikidataField", None, "NoneType"),
      WikidataField("extra", "WikidataCharField", Some(<<"n", "/", "a">>), "str"),
      WikidataField("extra", "WikidataEntityField", None, "NoneType"),
      WikidataField("extra", "WikidataEntityField", Some(<<"Q", "0">>), "str"),
      WikidataField("extra", "WikidataEntityFilterField", None, "NoneType"),
      WikidataField("extra", "WikidataListField", Some(<<>>), "list"),
      WikidataField("extra", "WikidataListField", None, "NoneType"),
      WikidataField("extra", "WikidataEntityListField", Some(<<>>), "list"),
      WikidataField("extra", "SchemaAboutField", None, "NoneType") }

\* the fields of such a model: the new field comes before the inherited ones
\* or after them
ModelFields ==
    {BaseFields} \cup {BaseFields \o <<f>> : f \in ExtraFields}
    \cup {<<f>> \o BaseFields : f \in ExtraFields}

\* what a row binds a variable to, when it binds it
RowBinding(variable) ==
    IF variable = "main" THEN Some(EntityUri(<<"Q", "4", "2">>))
    ELSE IF variable = "label" THEN Some(<<"D", "o", "u", "g", "l", "a", "s">>)
    ELSE IF variable = "description" THEN Some(<<"a", "u", "t", "h", "o", "r">>)
    ELSE IF variable = "alt_labels" THEN Some(<<"D", "N", "A", "|", "D", "A">>)
    ELSE Some(EntityUri(<<"Q", "5">>) \o <<"|">> \o EntityUri(<<"Q", "7">>))

RowVariables == {"main", "label", "description", "alt_labels", "extra"}

\* the rows: any of the variables bound, the others absent; and rows that
\* bind main alone, to a bare id, to a string without id, to the empty string
DecodeInputRows ==
    {[v \in bound |-> RowBinding(v)] : bound \in SUBSET RowVariables}
    \cup {[v \in {"main"} |-> Some(raw)] :
             raw \in {<<"Q", "1", "2", "3">>, <<"n", "/", "a">>, <<>>}}

\* cls._from_wikidata(row, with_conformance) on the model with the fields fs
CallFromWikidata ==
    /\ IsNone(decode_call) /\ IsNone(field_call)
    /\ \E fs \in ModelFields, r \in DecodeInputRows, c \in BOOLEAN :
          /\ decode_call' = Some([fields |-> fs, row |-> r, with_conformance |-> c])
          /\ decode_result' = Some(FromWikidata(fs, r, c))
          /\ created' = Some(NewInstance(fs))
    /\ UNCHANGED <<driverVars, execVars, queryVars, fieldVars, field_call, field_result>>

\* the raw values a row binds the variable of a field to: entity URIs, bare
\* ids, several ids, and strings without any id
RawValues ==
    { EntityUri(<<"Q", "1", "2", "3">>),
      <<"Q", "1", "2", "3">>,
      <<"q", "7">>,
      EntityUri(<<"Q", "5">>) \o <<"|">> \o EntityUri(<<"Q", "7">>),
      <<"x", "Q", "Q", "1", "2", "y", "3">>,
      WIKIDATA_ENTITY_PREFIX_URL \o <<"P", "3", "1">>,
      WIKIDATA_ENTITY_PREFIX_URL,
      <<"Q">>,
      <<"1", "2", "3">>,
      <<"n", "/", "a">>,
      <<"a", ",", "b", "|", "c">>,
      <<"|", "a">>,
      <<>> }

\* the values a list field is given as default: none, or a list of one item
ListDefaultArgs == {None, Some(<<"unknown">>)}

\* WikidataListField.__init__(empty=, separator=, default=), bound to the
\* name "extra": with empty the default given is replaced by []
WikidataListField(kind, empty, separator, default) ==
    [WikidataField("extra", kind,
                   IF empty THEN Some(<<>>) ELSE default,
                   IF ~empty /\ IsNone(default) THEN "NoneType" ELSE "list")
     EXCEPT !.separator = separator]

\* the list fields as a model declares them: every class that decodes a
\* list, with and without empty, with the separators "|" and ","
ListDecodeFields ==
    {WikidataListField(k, e, sep, d) :
        k \in ListKinds, e \in BOOLEAN, sep \in {"|", ","}, d \in ListDefaultArgs}

\* the rows a field is decoded from: its variable bound to a raw value, bound
\* without a value, or absent
FieldInputRows ==
    {[v \in {"extra"} |-> Some(raw)] : raw \in RawValues}
    \cup {[v \in {"extra"} |-> None], [v \in {"main"} |-> Some(EntityUri(<<"Q", "4", "2">>))]}

\* field.from_wikidata(row) on a field bound to the name "extra"
CallFieldFromWikidata ==
    /\ IsNone(decode_call) /\ IsNone(field_call)
    /\ \E f \in ExtraFields \cup ListDecodeFields, r \in FieldInputRows :
          /\ field_call' = Some([field |-> f, row |-> r])
          /\ field_result' = Some(FieldFromWikidata(f, r))
    /\ UNCHANGED <<driverVars, execVars, queryVars, fieldVars, decode_call, decode_result, created>>

NextDecode == CallFromWikidata \/ CallFieldFromWikidata

SpecDecode == Init /\ [][NextDecode]_vars

----------------------------------------------------------------------------
(* Query text.  A text is a sequence of pieces: the piece " " is a run of    *)
(* whitespace, every other piece is a string without whitespace; putting two *)
(* texts one after the other is \o.  The compiled query is                   *)
(* " ".join(query.split()): its words, single spaces between them.           *)

Space == <<" ">>

RECURSIVE Spaced(_)
\* the text of the given words, a space between each two
Spaced(words) ==
    IF words = <<>> THEN <<>>
    ELSE IF Len(words) = 1 THEN <<words[1]>>
    ELSE <<words[1], " ">> \o Spaced(Tail(words))

RECURSIVE JoinTexts(_, _)
\* sep.join(texts)
JoinTexts(texts, sep) ==
    IF texts = <<>> THEN <<>>
    ELSE IF Len(texts) = 1 THEN texts[1]
    ELSE texts[1] \o sep \o JoinTexts(Tail(texts), sep)

RECURSIVE SplitText(_)
\* str.split() of a text: the words of its two halves, the word that runs
\* across the middle put together again
SplitText(text) ==
    IF text = <<>> THEN <<>>
    ELSE IF Len(text) = 1 THEN (IF text[1] = " " THEN <<>> ELSE text)
    ELSE LET m == Len(text) \div 2
             left == SplitText(SubSeq(text, 1, m))
             right == SplitText(SubSeq(text, m + 1, Len(text)))
         IN  IF text[m] # " " /\ text[m + 1] # " "
             THEN SubSeq(left, 1, Len(left) - 1)
                  \o <<left[Len(left)] \o Head(right)>> \o Tail(right)
             ELSE left \o right

\* query.split(): the words of a text
TextWords(text) == SplitText(text)

RECURSIVE StripLeft(_)
StripLeft(text) == IF text # <<>> /\ Head(text) = " " THEN StripLeft(Tail(text)) ELSE text

RECURSIVE StripRight(_)
StripRight(text) ==
    IF text # <<>> /\ text[Len(text)] = " " THEN StripRight(SubSeq(text, 1, Len(text) - 1))
    ELSE text

\* str.strip()
Strip(text) == StripRight(StripLeft(text))

----------------------------------------------------------------------------
(* fields.py: the field descriptors, as far as query building reads them.    *)

\* a WDTriple(prop, values, subclass=, minus=)
WDTriple(prop, values, subclass, minus) ==
    [prop |-> prop, values |-> values, subclass |-> subclass, minus |-> minus]

\* a field of class kind under the attribute name; properties is the list of
\* property ids (<<>> when none was given), triples the WDTriples of an entity
\* field, values the entity ids of an entity filter field
Descriptor(name, kind, required, show_in_minimal, properties, triples, values) ==
    [name |-> name, kind |-> kind, required |-> required,
     show_in_minimal |-> show_in_minimal, entity_name |-> "main",
     properties |-> properties, triples |-> triples, values |-> values,
     url |-> "https://en.wikipedia.org/", separator |-> "|"]

\* constants.py
WIKIDATA_PROP_PREFIX == "wdt"
WIKIDATA_ENTITY_PREFIX == "wd"
WIKIDATA_SUBCLASS_PROP == "P279"
ENGLISH_LANG == "en"
ALL_LANGUAGES == "[AUTO_LANGUAGE],en,fr,ar,be,bg,bn,ca,cs,da,de,el,en,es,et,fa,fi,he,hi,hu,hy,id,it,ja,jv,ko,nb,nl,eo,pa,pl,pt,ro,ru,sh,sk,sr,sv,sw,te,th,tr,uk,yue,vec,vi,zh"

LabelKinds == {"WikidataLabelField", "WikidataDescriptionField"}
GroupConcatKinds == {"WikidataListField", "WikidataAltLabelField", "WikidataEntityListField"}

\* sparql_field_suffix of the class
SparqlFieldSuffix(kind) ==
    IF kind = "WikidataLabelField" THEN "Label"
    ELSE IF kind = "WikidataDescriptionField" THEN "Description"
    ELSE ""

\* self.from_name
FromName(field) == "?" \o field.entity_name \o SparqlFieldSuffix(field.kind)

\* WikidataField.use_minimal
use_minimal(field, minimal) == minimal /\ ~field.show_in_minimal

\* "(GROUP_CONCAT(DISTINCT ?<var>; SEPARATOR='<separator>') AS ?<name>)"
GroupConcat(field, var) ==
    Spaced(<<"(GROUP_CONCAT(DISTINCT", "?" \o var \o ";",
             "SEPARATOR='" \o field.separator \o "')", "AS", "?" \o field.name \o ")">>)

\* field.to_wikidata_field(minimal), by the class of the field
to_wikidata_field(field, minimal) ==
    IF field.kind = "WikidataConformanceField" THEN <<>>
    ELSE IF field.kind \in LabelKinds
    THEN Spaced(<<FromName(field), "(" \o FromName(field), "AS", "?" \o field.name \o ")">>)
    ELSE IF field.kind = "WikidataMainEntityField" THEN <<"?" \o field.name>>
    ELSE IF use_minimal(field, minimal) THEN <<>>
    ELSE IF field.kind = "WikidataListField" THEN GroupConcat(field, field.name \o "_item")
    ELSE IF field.kind = "WikidataAltLabelField"
    THEN GroupConcat(field, field.entity_name \o "_alt_label")
    ELSE IF field.kind = "WikidataEntityListField"
    THEN GroupConcat(field, field.name \o "_itemLabel")
    ELSE <<"?" \o field.name>>

\* field.to_wikidata_inner_field(minimal), by the class of the field
to_wikidata_inner_field(field, minimal) ==
    IF field.kind \in LabelKinds \/ field.kind = "WikidataAltLabelField" THEN <<>>
    ELSE IF field.kind \in {"WikidataListField", "WikidataEntityListField"}
    THEN (IF use_minimal(field, minimal) THEN <<>> ELSE <<"?" \o field.name \o "_item">>)
    ELSE to_wikidata_field(field, minimal)

RECURSIVE PropSparqlFrom(_, _)
PropSparqlFrom(properties, prop_prefix) ==
    IF properties = <<>> THEN ""
    ELSE IF Len(properties) = 1 THEN prop_prefix \o ":" \o properties[1]
    ELSE prop_prefix \o ":" \o properties[1] \o "|" \o PropSparqlFrom(Tail(properties), prop_prefix)

\* WikidataField.prop_sparql_string: a text of one word, or the empty text
prop_sparql_string(field, prop_prefix) ==
    IF field.properties = <<>> THEN <<>> ELSE <<PropSparqlFrom(field.properties, prop_prefix)>>

\* the fragment left bare, whatever required is
NeverOptional(field, wd_filter) == wd_filter

\* wd_filter if self.required else "OPTIONAL {{ {} }}".format(wd_filter)
OptionalUnlessRequired(field, wd_filter) ==
    IF field.required THEN wd_filter ELSE <<"OPTIONAL", " ", "{", " ">> \o wd_filter \o <<" ", "}">>

\* WDTriple.format(field_name, prop_prefix, entity_prefix, subclass_prop)
WDTripleFormat(triple, field_name, prop_prefix, entity_prefix, subclass_prop) ==
    LET query_prop == IF triple.subclass
                      THEN triple.prop \o "/" \o prop_prefix \o ":" \o subclass_prop \o "*"
                      ELSE triple.prop
        query == JoinTexts([i \in 1..Len(triple.values) |->
                               <<"{", " ", "?" \o field_name, " ",
                                 prop_prefix \o ":" \o query_prop, " ",
                                 entity_prefix \o ":" \o triple.values[i] \o ".}">>],
                           <<" ", "UNION", " ">>)
    IN  IF triple.minus THEN <<"MINUS", " ">> \o query ELSE query

\* the comparisons of WikidataEntityFilterField.to_wikidata_filter, joined
\* by "|| ?<name>_qid=wd:"
FilterValues(field) ==
    JoinTexts([i \in 1..Len(field.values) |-> <<field.values[i]>>],
              <<"||", " ", "?" \o field.name \o "_qid=wd:">>)

\* field.to_wikidata_filter(prop_prefix=, entity_prefix=, subclass_prop=), by
\* the class of the field: the exception raised, or the text
to_wikidata_filter(field, prop_prefix, entity_prefix, subclass_prop) ==
    LET props == prop_sparql_string(field, prop_prefix)
        entity == "?" \o field.entity_name
    IN  IF field.kind \in LabelKinds \cup {"WikidataAltLabelField", "WikidataConformanceField"}
        THEN [raised |-> "", text |-> <<>>]
        ELSE IF field.kind \in {"WikidataEntityField", "WikidataMainEntityField"}
        THEN [raised |-> "",
              text |-> OptionalUnlessRequired(field,
                          JoinTexts([i \in 1..Len(field.triples) |->
                                        WDTripleFormat(field.triples[i], field.entity_name,
                                                       prop_prefix, entity_prefix, subclass_prop)],
                                    Space))]
        ELSE IF field.kind = "WikidataEntityFilterField"
        THEN [raised |-> "",
              text |-> OptionalUnlessRequired(field,
                          <<entity, " ">> \o props
                          \o <<" ", "?" \o field.name \o "_qid.", " ",
                               "FILTER(?" \o field.name \o "_qid=wd:">>
                          \o FilterValues(field) \o <<").">>)]
        ELSE IF field.kind \in {"WikidataListField", "WikidataEntityListField"}
        THEN [raised |-> "",
              text |-> OptionalUnlessRequired(field,
                          <<entity, " ">> \o props
                          \o <<" ", "?" \o field.name \o "_item", " ", ".">>)]
        ELSE IF field.kind = "SchemaAboutField"
        THEN [raised |-> "",
              text |-> OptionalUnlessRequired(field,
                          Spaced(<<"?" \o field.name, "schema:about", entity \o ";",
                                   "schema:isPartOf", "<" \o field.url \o ">.">>))]
        ELSE IF field.properties = <<>>
        THEN [raised |-> "AssertionError", text |-> <<>>]
        ELSE [raised |-> "",
              text |-> OptionalUnlessRequired(field,
                          <<entity, " ">> \o props \o <<" ", "?" \o field.name \o ".">>)]

\* field.to_wikidata_outer_filter(language=)
to_wikidata_outer_filter(field, language) ==
    IF field.kind = "WikidataAltLabelField"
    THEN OptionalUnlessRequired(field,
            Spaced(<<"?" \o field.entity_name, "skos:altLabel",
                     "?" \o field.entity_name \o "_alt_label", ".FILTER",
                     "(lang(?" \o field.entity_name \o "_alt_label)='" \o language \o "')">>))
    ELSE <<>>

\* field.to_wikidata_service()
to_wikidata_service(field) ==
    IF field.kind = "WikidataLabelField"
    THEN Spaced(<<"?" \o field.entity_name, "rdfs:label", FromName(field), ".">>) \o Space
    ELSE IF field.kind = "WikidataDescriptionField"
    THEN Spaced(<<"?" \o field.entity_name, "schema:description", FromName(field), ".">>) \o Space
    ELSE IF field.kind = "WikidataEntityFilterField"
    THEN Spaced(<<"?" \o field.name \o "_qid", "rdfs:label", "?" \o field.name, ".">>) \o Space
    ELSE IF field.kind = "WikidataEntityListField"
    THEN Spaced(<<"?" \o field.name \o "_item", "rdfs:label",
                  "?" \o field.name \o "_itemLabel", ".">>) \o Space
    ELSE <<>>

\* field.to_wikidata_group()
to_wikidata_group(field) ==
    IF field.kind \in GroupConcatKinds \cup {"WikidataConformanceField"} THEN <<>>
    ELSE IF field.kind \in {"WikidataEntityField", "WikidataMainEntityField",
                            "WikidataEntityFilterField", "SchemaAboutField"}
    THEN <<"?" \o field.name>>
    ELSE <<FromName(field)>>

----------------------------------------------------------------------------
(* models.py: build_query, as text. *)

\* Meta.prefix_map, in the order of the dict
PrefixMap ==
    << <<WIKIDATA_ENTITY_PREFIX, "http://www.wikidata.org/entity/">>,
       <<WIKIDATA_PROP_PREFIX, "http://www.wikidata.org/prop/direct/">> >>

\* WikidataItemBase._build_query_prefixes
BuildQueryPrefixes ==
    JoinTexts([i \in 1..Len(PrefixMap) |->
                  Spaced(<<"PREFIX", PrefixMap[i][1] \o ":", "<" \o PrefixMap[i][2] \o ">">>)],
              Space)

\* WikidataItemBase._get_primary_language
GetPrimaryLanguage(language) == IF language = "" THEN ENGLISH_LANG ELSE language

\* WikidataItemBase._build_query_languages
BuildQueryLanguages(language) == GetPrimaryLanguage(language) \o "," \o ALL_LANGUAGES

\* the VALUES clause with the ids listed bare, without the entity prefix
BuildQueryValuesUnprefixed(values) ==
    IF values = <<>> THEN <<>>
    ELSE <<"VALUES", " ", "?main", " ", "{">>
         \o JoinTexts([i \in 1..Len(values) |-> <<values[i]>>], Space) \o <<"}">>

\* WikidataItemBase._build_query_values, values being a list of entity ids
BuildQueryValues(values) ==
    IF values = <<>> THEN <<>>
    ELSE <<"VALUES", " ", "?main", " ", "{">>
         \o JoinTexts([i \in 1..Len(values) |-> <<WIKIDATA_ENTITY_PREFIX \o ":" \o values[i]>>],
                      Space)
         \o <<"}">>

\* the fields whose filters build_query renders
FilteredFields(fields, minimal) ==
    SelectSeq(fields, LAMBDA f : f.required \/ ~use_minimal(f, minimal))

RECURSIVE RenderFilters(_)
\* the generator of _build_query_filters: the texts of the filters, or the
\* exception of the first one that raises
RenderFilters(fields) ==
    IF fields = <<>> THEN [raised |-> "", texts |-> <<>>]
    ELSE LET r == to_wikidata_filter(Head(fields), WIKIDATA_PROP_PREFIX,
                                     WIKIDATA_ENTITY_PREFIX, WIKIDATA_SUBCLASS_PROP)
             rest == RenderFilters(Tail(fields))
         IN  IF r.raised # "" THEN [raised |-> r.raised, texts |-> <<>>]
             ELSE IF rest.raised # "" THEN rest
             ELSE [raised |-> "", texts |-> <<r.text>> \o rest.texts]

\* WikidataItemBase._build_query_filters
BuildQueryFilters(fields, minimal) ==
    LET r == RenderFilters(FilteredFields(fields, minimal))
    IN  [raised |-> r.raised, text |-> JoinTexts(r.texts, Space)]

\* WikidataItemBase._build_query_service_clause
BuildQueryServiceClause(fields, minimal, language) ==
    LET shown == SelectSeq(fields, LAMBDA f : ~use_minimal(f, minimal))
        query_services ==
            Strip(JoinTexts([i \in 1..Len(shown) |-> to_wikidata_service(shown[i])], Space))
    IN  Spaced(<<"SERVICE", "wikibase:label", "{", "bd:serviceParam", "wikibase:language",
                 "'" \o BuildQueryLanguages(language) \o "'.">>)
        \o Space \o query_services \o <<" ", "}">>

\* WikidataItemBase._build_query_order_by
BuildQueryOrderBy(count) == IF count THEN <<>> ELSE Spaced(<<"ORDER", "BY", "?main">>)

\* the clause with its keyword written out whatever the number is
NumberClauseAlways(keyword, number) ==
    <<keyword, " ">> \o (IF IsNone(number) THEN <<>> ELSE <<ToString(Val(number))>>)

\* f"LIMIT {limit}" if limit else "", and the same for OFFSET
NumberClause(keyword, number) ==
    IF TruthyInt(number) THEN <<keyword, " ", ToString(Val(number))>> ELSE <<>>

\* minimal as the caller passed it, whatever count is
MinimalAsPassed(count, minimal) == minimal

\* minimal after "if count: minimal = True"
MinimalOrCount(count, minimal) == count \/ minimal

\* WikidataItemBase.build_query(values, limit, minimal, offset, count, language)
\* on a model with the given fields: the exception raised, or the words of
\* the compiled query
BuildQueryText(fields, values, limit, minimal_arg, offset, count, language) ==
    LET minimal == MinimalOrCount(count, minimal_arg)
        primary_language == GetPrimaryLanguage(language)
        query_fields ==
            JoinTexts([i \in 1..Len(fields) |-> to_wikidata_field(fields[i], minimal)], Space)
        query_inner_fields ==
            JoinTexts([i \in 1..Len(fields) |-> to_wikidata_inner_field(fields[i], minimal)],
                      Space)
        query_filters == BuildQueryFilters(fields, minimal)
        outer == FilteredFields(fields, minimal)
        query_outer_filters ==
            JoinTexts([i \in 1..Len(outer) |-> to_wikidata_outer_filter(outer[i], primary_language)],
                      Space)
        group_by_text ==
            Strip(JoinTexts([i \in 1..Len(fields) |-> to_wikidata_group(fields[i])], Space))
        group_by == IF group_by_text # <<>> THEN <<"GROUP", " ", "BY", " ">> \o group_by_text
                    ELSE <<>>
        values_filter == BuildQueryValues(values)
        order_by == BuildQueryOrderBy(count)
        query_service == BuildQueryServiceClause(fields, minimal, language)
        limit_by == NumberClause("LIMIT", limit)
        offset_by == NumberClause("OFFSET", offset)
        tail == order_by \o Space \o limit_by \o Space \o offset_by
        subquery ==
            IF values_filter # <<>>
            THEN <<" ", "SELECT", " ", "DISTINCT", " ">> \o query_fields
                 \o <<" ", "WHERE", " ", "{", " ">>
                 \o values_filter \o Space \o query_filters.text \o Space
                 \o query_outer_filters \o Space \o query_service
                 \o <<" ", "}", " ">> \o group_by \o Space \o tail \o Space
            ELSE <<"SELECT", " ", "DISTINCT", " ">> \o query_inner_fields
                 \o <<" ", "WHERE", " ", "{">> \o query_filters.text \o <<"}", " ">> \o tail
        query ==
            IF count
            THEN Spaced(<<"SELECT", "(COUNT(?main)", "AS", "?count)", "WHERE", "{">>)
                 \o Space \o subquery \o <<" ", "}">>
            ELSE IF values_filter # <<>> THEN subquery
            ELSE <<" ", "SELECT", " ", "DISTINCT", " ">> \o query_fields
                 \o <<" ", "WHERE", " ", "{", " ", "{", " ">> \o subquery \o <<" ", "}", " ">>
                 \o query_outer_filters \o Space \o query_service
                 \o <<" ", "}", " ">> \o group_by \o Space
    IN  IF query_filters.raised # "" THEN [raised |-> query_filters.raised, words |-> <<>>]
        ELSE [raised |-> "", words |-> TextWords(BuildQueryPrefixes \o Space \o query)]

----------------------------------------------------------------------------
(* build_query and the filter renderers called directly, on models that add  *)
(* one field to the fields of WikidataItemBase.                              *)

\* the descriptors of WikidataItemBase, in the order _load_wikidata_fields
\* meets them
BaseQueryFields ==
    << Descriptor("main", "WikidataMainEntityField", TRUE, TRUE, <<>>, <<>>, <<>>),
       Descriptor("label", "WikidataLabelField", TRUE, TRUE, <<>>, <<>>, <<>>),
       Descriptor("description", "WikidataDescriptionField", FALSE, TRUE, <<>>, <<>>, <<>>),
       Descriptor("alt_labels", "WikidataAltLabelField", FALSE, FALSE, <<>>, <<>>, <<>>),
       Descriptor("conformance", "WikidataConformanceField", FALSE, FALSE, <<>>, <<>>, <<>>) >>

\* the property lists a field is declared with
PropertyLists == {<<>>, <<"P31">>, <<"P31", "P279">>}

\* the triples an entity field is declared with
TripleLists ==
    { <<>>,
      <<WDTriple("P31", <<"Q5">>, FALSE, FALSE)>>,
      <<WDTriple("P31", <<"Q5", "Q6">>, TRUE, FALSE), WDTriple("P21", <<"Q7">>, FALSE, TRUE)>> }

\* the entity ids an entity filter field is declared with
FilterValueLists == {<<"Q5">>, <<"Q5", "Q6">>}

\* the field a model declares under the name "extra": every class, with the
\* required and show_in_minimal flags and the properties, triples or values
\* its constructor accepts
ExtraQueryFields ==
    UNION { {Descriptor("extra", k, r, s, p, <<>>, <<>>) :
                k \in {"WikidataField", "WikidataCharField", "WikidataListField"},
                p \in PropertyLists}
            \cup {Descriptor("extra", "WikidataEntityListField", r, s, p, <<>>, <<>>) :
                     p \in PropertyLists \ {<<>>}}
            \cup {Descriptor("extra", "WikidataEntityField", r, s, <<>>, t, <<>>) :
                     t \in TripleLists}
            \cup {Descriptor("extra", "WikidataEntityFilterField", r, s, <<"P31">>, <<>>, v) :
                     v \in FilterValueLists}
            \cup {Descriptor("extra", k, r, s, <<>>, <<>>, <<>>) :
                     k \in {"WikidataLabelField", "WikidataDescriptionField",
                            "WikidataAltLabelField", "SchemaAboutField",
                            "WikidataConformanceField"}}
          : r \in BOOLEAN, s \in BOOLEAN }

\* the descriptors of a subclass that redefines main, label and description
\* as fields that take no part in queries: its own three fields come first,
\* the fields of WikidataItemBase under keys not yet met follow
UngroupedQueryFields ==
    << Descriptor("main", "WikidataConformanceField", FALSE, FALSE, <<>>, <<>>, <<>>),
       Descriptor("label", "WikidataConformanceField", FALSE, FALSE, <<>>, <<>>, <<>>),
       Descriptor("description", "WikidataConformanceField", FALSE, FALSE, <<>>, <<>>, <<>>),
       BaseQueryFields[4], BaseQueryFields[5] >>

\* the fields of the models: WikidataItemBase itself, and the subclasses,
\* whose own field comes first in the method resolution order
QueryModels ==
    {BaseQueryFields, UngroupedQueryFields}
    \cup {<<f>> \o BaseQueryFields : f \in ExtraQueryFields}

\* the values argument: None, an empty list, the ids of tests/test_models.py
QueryValueArgs == {None, Some(<<>>), Some(<<"Q123">>), Some(<<"Q123", "Q321">>)}
QueryLimitArgs == {None, Some(0), Some(2), Some(30)}
QueryOffsetArgs == {None, Some(0), Some(4)}
\* the language argument: "" stands for None
QueryLanguageArgs == {"", "fr"}

\* cls.build_query(values, limit, minimal, offset, count, language) on the
\* model with the fields fs
CallBuildQuery ==
    /\ IsNone(query_call) /\ IsNone(filter_call)
    /\ \E fs \in QueryModels, v \in QueryValueArgs, l \in QueryLimitArgs, m \in BOOLEAN,
          o \in QueryOffsetArgs, c \in BOOLEAN, lang \in QueryLanguageArgs :
          /\ query_call' = Some([fields |-> fs, values |-> v, limit |-> l, minimal |-> m,
                                 offset |-> o, count |-> c, language |-> lang])
          /\ query_result' = Some(BuildQueryText(fs, IF IsNone(v) THEN <<>> ELSE Val(v),
                                                 l, m, o, c, lang))
    /\ UNCHANGED <<driverVars, execVars, decodeVars, fieldVars, filter_call, filter_result>>

\* field.to_wikidata_filter() and field.to_wikidata_outer_filter() with the
\* defaults of their keyword arguments
CallToWikidataFilter ==
    /\ IsNone(query_call) /\ IsNone(filter_call)
    /\ \E f \in ExtraQueryFields \cup {BaseQueryFields[i] : i \in 1..Len(BaseQueryFields)} :
          /\ filter_call' = Some(f)
          /\ filter_result' =
                Some([filter |-> to_wikidata_filter(f, WIKIDATA_PROP_PREFIX,
                                                    WIKIDATA_ENTITY_PREFIX,
                                                    WIKIDATA_SUBCLASS_PROP),
                      outer_filter |-> to_wikidata_outer_filter(f, ENGLISH_LANG)])
    /\ UNCHANGED <<driverVars, execVars, decodeVars, fieldVars, query_call, query_result>>

\* the classes whose filter fragment is built on self.properties
PropertyKinds ==
    {"WikidataField", "WikidataCharField", "WikidataListField", "WikidataEntityListField",
     "WikidataEntityFilterField"}

\* the exception the constructor of the class raises for the properties
\* given, "" when it returns the field: only WikidataEntityListField.__init__
\* looks at them
ConstructorRaises(kind, properties) ==
    IF kind = "WikidataEntityListField" /\ properties = <<>> THEN "AssertionError" ELSE ""

\* the fields of these classes as a model declares them, properties given or
\* left out
DeclaredFields ==
    UNION { {Descriptor("extra", k, r, FALSE, p, <<>>, <<>>) :
                k \in PropertyKinds \ {"WikidataEntityFilterField"}}
            \cup {Descriptor("extra", "WikidataEntityFilterField", r, FALSE, p, <<>>, v) :
                     v \in FilterValueLists}
          : r \in BOOLEAN, p \in {<<>>, <<"P31">>} }

\* Class(properties=..., required=...) is constructed, bound to the name
\* "extra", and its filter fragments are rendered: the exception of the
\* constructor or of to_wikidata_filter, or the fragments
CallDeclaredFieldFilter ==
    /\ IsNone(query_call) /\ IsNone(filter_call)
    /\ \E f \in DeclaredFields :
          /\ filter_call' = Some(f)
          /\ filter_result' =
                IF ConstructorRaises(f.kind, f.properties) # ""
                THEN Some([filter |-> [raised |-> ConstructorRaises(f.kind, f.properties),
                                       text |-> <<>>],
                           outer_filter |-> <<>>])
                ELSE Some([filter |-> to_wikidata_filter(f, WIKIDATA_PROP_PREFIX,
                                                         WIKIDATA_ENTITY_PREFIX,
                                                         WIKIDATA_SUBCLASS_PROP),
                           outer_filter |-> to_wikidata_outer_filter(f, ENGLISH_LANG)])
    /\ UNCHANGED <<driverVars, execVars, decodeVars, fieldVars, query_call, query_result>>

NextQuery == CallBuildQuery \/ CallToWikidataFilter \/ CallDeclaredFieldFilter

SpecQuery == Init /\ [][NextQuery]_vars

----------------------------------------------------------------------------
(* Field objects and classes: _load_wikidata_fields, set_name, the render     *)
(* methods called on the field objects, and build_query on the classes.       *)

\* utils.is_private_name: of the keys of the two classes only "_note" begins
\* with "_"
is_private_name(name_string) == name_string \in {"_note"}

\* cls.__dict__ as far as it holds fields: (key, field object), in the order
\* of the class body
ClassDict(cls) ==
    IF cls = "ItemSubclass"
    THEN << <<"extra", "extra">>, <<"label", "own_label">>, <<"_note", "_note">> >>
    ELSE << <<"main", "main">>, <<"label", "label">>, <<"description", "description">>,
            <<"alt_labels", "alt_labels">>, <<"conformance", "conformance">> >>

\* cls.__mro__, as far as its classes hold fields
Mro(cls) ==
    IF cls = "ItemSubclass" THEN <<"ItemSubclass", "WikidataItemBase">>
    ELSE <<"WikidataItemBase">>

\* the pairs _load_wikidata_fields keeps, had it kept the last pair met
\* under a key
LoadFromLastMet(pairs, kept) ==
    LET last == {i \in 1..Len(pairs) :
                    \A j \in (i + 1)..Len(pairs) : pairs[j][1] # pairs[i][1]}
    IN  SelectSeq(pairs, LAMBDA pair : \E i \in last : pairs[i] = pair)

RECURSIVE LoadFrom(_, _)
\* the loops of _load_wikidata_fields over the (key, field) pairs met: a
\* pair is kept when its key is not among the keys kept so far
LoadFrom(pairs, kept) ==
    IF pairs = <<>> THEN kept
    ELSE IF \E i \in 1..Len(kept) : kept[i][1] = Head(pairs)[1]
    THEN LoadFrom(Tail(pairs), kept)
    ELSE LoadFrom(Tail(pairs), Append(kept, Head(pairs)))

\* zip(keys, fields) of _load_wikidata_fields(cls)
LoadWikidataFields(cls) ==
    LoadFrom(JoinTexts([i \in 1..Len(Mro(cls)) |-> ClassDict(Mro(cls)[i])], <<>>), <<>>)

\* field.set_name(name)
set_name(field_obj, name) ==
    [field_obj EXCEPT !.name = Some(name),
                      !.public = IF IsNone(@) THEN Some(~is_private_name(name)) ELSE @]

\* the field objects after _load_wikidata_fields has named the ones it keeps
NamedObjects(objs, loaded) ==
    [o \in FieldObjects |->
        IF \E i \in 1..Len(loaded) : loaded[i][2] = o
        THEN set_name(objs[o], loaded[CHOOSE i \in 1..Len(loaded) : loaded[i][2] = o][1])
        ELSE objs[o]]

\* the arguments each field object was constructed with; extra is the field
\* the subclass declares; the name is str(None) until set_name is called
FieldConfig(obj, extra) ==
    [ (IF obj = "extra" THEN extra
       ELSE IF obj = "own_label"
       THEN Descriptor("", "WikidataLabelField", FALSE, FALSE, <<>>, <<>>, <<>>)
       ELSE IF obj = "_note"
       THEN Descriptor("", "WikidataConformanceField", FALSE, FALSE, <<>>, <<>>, <<>>)
       ELSE BaseQueryFields[CHOOSE i \in 1..Len(BaseQueryFields) : BaseQueryFields[i].name = obj])
      EXCEPT !.name = "None" ]

\* the field object as the render methods read it
BoundField(obj, objs, extra) ==
    [FieldConfig(obj, extra) EXCEPT !.name = IF IsNone(objs[obj].name) THEN @
                                              ELSE Val(objs[obj].name)]

\* the classes that assign self.wikidata_filter in to_wikidata_filter
StoringKinds == {"WikidataEntityField", "WikidataMainEntityField"}

\* the prefixes to_wikidata_filter is called with: the defaults, or others
FilterPrefixes(arg) ==
    IF arg = "custom" THEN <<"p", "e", "P1">>
    ELSE <<WIKIDATA_PROP_PREFIX, WIKIDATA_ENTITY_PREFIX, WIKIDATA_SUBCLASS_PROP>>

\* self.wikidata_filter after field.to_wikidata_filter(...): assigned the
\* joined triples by an entity field, left alone by every other class
WikidataFilterAfter(field, old, prefixes) ==
    IF field.kind \in StoringKinds
    THEN Some(JoinTexts([i \in 1..Len(field.triples) |->
                            WDTripleFormat(field.triples[i], field.entity_name,
                                           prefixes[1], prefixes[2], prefixes[3])],
                        Space))
    ELSE old

\* the render calls: the method, and its argument as a word
RenderCalls ==
    {<<method, arg>> : method \in {"to_wikidata_field", "to_wikidata_inner_field"},
                   arg \in {"minimal", "full"}}
    \cup {<<"to_wikidata_filter", arg>> : arg \in {"default", "custom"}}
    \cup {<<"to_wikidata_outer_filter", arg>> : arg \in {"en", "fr"}}
    \cup {<<"to_wikidata_service", "">>, <<"to_wikidata_group", "">>}

\* what field.<method>(<arg>) raises or returns
Render(field, method, arg) ==
    IF method = "to_wikidata_filter"
    THEN to_wikidata_filter(field, FilterPrefixes(arg)[1], FilterPrefixes(arg)[2],
                            FilterPrefixes(arg)[3])
    ELSE [raised |-> "",
          text |-> IF method = "to_wikidata_field" THEN to_wikidata_field(field, arg = "minimal")
                   ELSE IF method = "to_wikidata_inner_field"
                   THEN to_wikidata_inner_field(field, arg = "minimal")
                   ELSE IF method = "to_wikidata_outer_filter" THEN to_wikidata_outer_filter(field, arg)
                   ELSE IF method = "to_wikidata_service" THEN to_wikidata_service(field)
                   ELSE to_wikidata_group(field)]

RECURSIVE StoreFilters(_, _, _)
\* the field objects after _build_query_filters has rendered the filters of
\* the (key, field) pairs in order, up to the first that raises
StoreFilters(pairs, objs, extra) ==
    IF pairs = <<>> THEN objs
    ELSE LET obj == Head(pairs)[2]
             field == BoundField(obj, objs, extra)
             prefixes == FilterPrefixes("default")
         IN  IF to_wikidata_filter(field, prefixes[1], prefixes[2], prefixes[3]).raised # ""
             THEN objs
             ELSE StoreFilters(Tail(pairs),
                               [objs EXCEPT ![obj].wikidata_filter =
                                                WikidataFilterAfter(field, @, prefixes)],
                               extra)

\* the field the subclass declares as extra: one of each class that has its
\* own filter, with the properties, triples or values it needs, and a scalar
\* field without properties
DeclaredExtraFields ==
    { Descriptor("extra", "WikidataField", FALSE, FALSE, <<"P31">>, <<>>, <<>>),
      Descriptor("extra", "WikidataCharField", TRUE, FALSE, <<>>, <<>>, <<>>),
      Descriptor("extra", "WikidataListField", FALSE, TRUE, <<"P31">>, <<>>, <<>>),
      Descriptor("extra", "WikidataEntityListField", FALSE, FALSE, <<"P31", "P279">>, <<>>, <<>>),
      Descriptor("extra", "WikidataEntityField", FALSE, FALSE, <<>>,
                 <<WDTriple("P31", <<"Q5", "Q6">>, TRUE, FALSE)>>, <<>>),
      Descriptor("extra", "WikidataEntityField", TRUE, TRUE, <<>>,
                 <<WDTriple("P21", <<"Q7">>, FALSE, TRUE)>>, <<>>),
      Descriptor("extra", "WikidataEntityFilterField", FALSE, FALSE, <<"P31">>, <<>>, <<"Q5">>),
      Descriptor("extra", "SchemaAboutField", FALSE, FALSE, <<>>, <<>>, <<>>) }

\* the class statement of the subclass is executed
DeclareSubclass ==
    /\ IsNone(declared)
    /\ \E f \in DeclaredExtraFields : declared' = Some(f)
    /\ UNCHANGED <<field_objs, wikidata_fields, fields_call, fields_result>>
    /\ UNCHANGED <<driverVars, execVars, decodeVars, queryVars>>

\* cls.get_wikidata_fields(with_keys): the fields are loaded and named, and
\* the pairs or the fields are returned
CallGetWikidataFields ==
    /\ ~IsNone(declared)
    /\ \E cls \in Classes, with_keys \in BOOLEAN :
          LET loaded == LoadWikidataFields(cls) IN
          /\ field_objs' = NamedObjects(field_objs, loaded)
          /\ wikidata_fields' = [wikidata_fields EXCEPT ![cls] = Some(loaded)]
          /\ fields_call' = Some([op |-> "get_wikidata_fields", cls |-> cls, obj |-> "",
                                  arg |-> IF with_keys THEN "with_keys" ELSE ""])
          /\ fields_result' =
                Some([raised |-> "", text |-> <<>>,
                      fields |-> IF with_keys THEN loaded
                                 ELSE [i \in 1..Len(loaded) |-> <<loaded[i][2]>>]])
    /\ UNCHANGED declared
    /\ UNCHANGED <<driverVars, execVars, decodeVars, queryVars>>

\* one of the render methods is called on a field object
CallRender ==
    /\ ~IsNone(declared)
    /\ \E obj \in FieldObjects, call \in RenderCalls :
          LET field == BoundField(obj, field_objs, Val(declared))
              r == Render(field, call[1], call[2])
          IN  /\ fields_call' = Some([op |-> call[1], cls |-> "", obj |-> obj, arg |-> call[2]])
              /\ fields_result' = Some([raised |-> r.raised, text |-> r.text, fields |-> <<>>])
              /\ field_objs' =
                    IF call[1] = "to_wikidata_filter" /\ r.raised = ""
                    THEN [field_objs EXCEPT ![obj].wikidata_filter =
                              WikidataFilterAfter(field, @, FilterPrefixes(call[2]))]
                    ELSE field_objs
    /\ UNCHANGED <<declared, wikidata_fields>>
    /\ UNCHANGED <<driverVars, execVars, decodeVars, queryVars>>

\* cls.build_query(minimal=) is called: cls() and get_wikidata_fields load
\* and name the fields, the fragments of the fields are rendered, and the
\* query is returned unless a filter raised
CallBuildQueryOfClass ==
    /\ ~IsNone(declared)
    /\ \E cls \in Classes, minimal \in BOOLEAN :
          LET loaded == LoadWikidataFields(cls)
              named == NamedObjects(field_objs, loaded)
              fields == [i \in 1..Len(loaded) |-> BoundField(loaded[i][2], named, Val(declared))]
              filtered == SelectSeq(loaded, LAMBDA pair :
                              LET f == BoundField(pair[2], named, Val(declared))
                              IN  f.required \/ ~use_minimal(f, minimal))
              r == BuildQueryText(fields, <<>>, None, minimal, None, FALSE, "")
          IN  /\ field_objs' = StoreFilters(filtered, named, Val(declared))
              /\ wikidata_fields' = [wikidata_fields EXCEPT ![cls] = Some(loaded)]
              /\ fields_call' = Some([op |-> "build_query", cls |-> cls, obj |-> "",
                                      arg |-> IF minimal THEN "minimal" ELSE "full"])
              /\ fields_result' = Some([raised |-> r.raised, text |-> r.words, fields |-> <<>>])
    /\ UNCHANGED declared
    /\ UNCHANGED <<driverVars, execVars, decodeVars, queryVars>>

NextFields == DeclareSubclass \/ CallGetWikidataFields \/ CallRender \/ CallBuildQueryOfClass

SpecFields == Init /\ [][NextFields]_vars

----------------------------------------------------------------------------
(* Properties of the pagination driver. *)

\* ceil(n / s)
CeilDiv(n, s) == (n + s - 1) \div s

\* the id of a produced instance
IdOf(item) == Obj(item)["id"]

\* the places of a list of instances at which an id occurs for the first time
FirstOccurrences(objs) ==
    {i \in 1..Len(objs) : \A j \in 1..(i - 1) : IdOf(objs[j]) # IdOf(objs[i])}

\* kept holds the members of objs at the places in the set places, in the order of objs
IsSelection(kept, objs, places) ==
    /\ Len(kept) = Cardinality(places)
    /\ \A i \in places : kept[Cardinality({j \in places : j < i}) + 1] = objs[i]

\* no two members of a list of instances have the same id
DistinctIds(objs) == \A i, j \in 1..Len(objs) : IdOf(objs[i]) = IdOf(objs[j]) => i = j

\* the exchange delivered an array of rows
Delivered(h) ==
    /\ h.transport = "ok" /\ h.status \in 200..299 /\ h.json
    /\ h.top = "object" /\ h.results = "object" /\ h.bindings = "array"

\* the request failed: no answer, an error status, or a body that is no JSON
\* object with a results.bindings member
RequestFailed(h) ==
    \/ h.transport # "ok" \/ h.status \notin 200..299 \/ ~h.json
    \/ h.top # "object" \/ h.results # "object" \/ h.bindings = "absent"

\* an all-pages fetch of a non-empty identifier list without limit, in which
\* every answer so far has one row per requested identifier
AllPagesOverValues ==
    /\ op = "get_all" /\ IsNone(args.page) /\ ~TruthyInt(args.limit) /\ Truthy(args.values)
    /\ \A k \in 1..Len(responses) :
          Delivered(responses[k]) /\ Len(responses[k].rows) = Len(requests[k].values)

\* C1: an all-pages fetch without limit over n identifiers with page size s,
\* each answer carrying one row per requested identifier, issues exactly
\* ceil(n/s) requests, the k-th for values[(k-1)*s : k*s]; it goes on while
\* fewer were issued, stops once all were, and then returns at most n
\* instances with pairwise distinct ids.
C1_AllPagesRequests ==
    AllPagesOverValues =>
        LET n == Len(Val(args.values))
            s == IF TruthyInt(args.page_size) THEN Val(args.page_size) ELSE default_page_size
        IN  /\ Len(requests) <= CeilDiv(n, s)
            /\ \A k \in 1..Len(requests) :
                  requests[k].values = Slice(Val(args.values), (k - 1) * s, k * s)
            /\ pc \in {"running", "returned"}
            /\ pc = "running" <=> Len(requests) < CeilDiv(n, s)
            /\ pc = "returned" =>
                  /\ ~IsNone(result)
                  /\ Len(Val(result)) <= n
                  /\ DistinctIds(Val(result))

\* five identifiers, page size 2: the fetch has returned after three requests,
\* the last of them for the one identifier that was left
C1_Witness ==
    /\ AllPagesOverValues /\ pc = "returned"
    /\ Len(Val(args.values)) = 5 /\ args.page_size = Some(2)
    /\ Len(requests) = 3
    /\ requests[3].values = <<Qid(5)>>

\* C2: get_all(page=None) returns the produced instances without those whose
\* id an earlier one had: no id twice, the first of each id, in the order
\* produced; each dropped instance is logged, and no call is ended by an
\* exception other than over its last answer.
C2_MergedByFirstOccurrence ==
    (op = "get_all" /\ IsNone(args.page)) =>
        /\ pc = "returned" =>
              /\ DistinctIds(Val(result))
              /\ IsSelection(Val(result), items, FirstOccurrences(items))
              /\ IsSelection(merge_log, [i \in 1..Len(items) |-> IdOf(items[i])],
                             (1..Len(items)) \ FirstOccurrences(items))
              /\ exception = ""
        /\ pc = "raised" => ~Delivered(responses[Len(responses)])

\* the second answer repeated an id of the first with another label: the
\* call returned the first instance and logged the second
C2_Witness ==
    /\ op = "get_all" /\ IsNone(args.page) /\ pc = "returned"
    /\ Len(items) >= 2 /\ items[1].row = 1 /\ \E i \in 2..Len(items) : items[i].row = 3
    /\ Len(Val(result)) < Len(items)
    /\ merge_log # <<>>

\* C3: a get_all call one of whose page requests failed has raised
\* DjangoWikidataAPIException and returned nothing; the failed request is its
\* last one (it was not repeated and none followed).  And whatever exception
\* ends a call, nothing is returned.
C3_FailedPageAborts ==
    op = "get_all" =>
        /\ Len(requests) = Len(responses)
        /\ \A k \in 1..Len(responses) :
              RequestFailed(responses[k]) =>
                  /\ pc = "raised"
                  /\ exception = "DjangoWikidataAPIException"
                  /\ IsNone(result)
                  /\ k = Len(responses)
        /\ pc = "raised" => IsNone(result)

\* a page was decoded, then the request for the next page failed
C3_Witness ==
    /\ op = "get_all" /\ pc = "raised"
    /\ Len(responses) >= 2
    /\ items # <<>>
    /\ RequestFailed(responses[Len(responses)])

\* the page size, the offset and the query limit of the k-th request of a
\* get_all call, from the arguments and the rows answered before it
PageSizeOfCall == IF TruthyInt(args.page_size) THEN Val(args.page_size) ELSE default_page_size
OffsetOfRequest(k) ==
    ((IF TruthyInt(args.page) THEN Val(args.page) ELSE 1) + k - 2) * PageSizeOfCall
QueryLimitOfRequest(k) ==
    IF TruthyInt(args.limit)
    THEN Min(Min(Val(args.limit), Len(Val(args.values)))
                - RowsServed(SubSeq(responses, 1, k - 1)),
             PageSizeOfCall)
    ELSE PageSizeOfCall

\* the slice the k-th request is for
SliceOfRequest(k) ==
    Slice(Val(args.values), OffsetOfRequest(k), OffsetOfRequest(k) + QueryLimitOfRequest(k))

C5_GetFirstRowOrNone ==
    op = "get" =>
        /\ Len(requests) = 1 /\ Len(responses) = 1
        /\ requests[1].values = <<args.entity_id>>
        /\ (Delivered(responses[1]) /\ responses[1].rows # <<>>) =>
              /\ pc = "returned" /\ exception = ""
              /\ ~IsNone(result)
              /\ Obj(Val(result)) =
                    FromWikidata(BaseFields, EndpointRows[responses[1].rows[1]],
                                 args.with_conformance).obj
        /\ (Delivered(responses[1]) /\ responses[1].rows = <<>>) =>
              /\ pc = "returned" /\ exception = ""
              /\ IsNone(result)

\* get was answered with two rows for two entities and returned the first
C5_Witness ==
    /\ op = "get" /\ pc = "returned"
    /\ Delivered(responses[1]) /\ Len(responses[1].rows) >= 2
    /\ IdOf(Instance(responses[1].rows[1], FALSE)) # IdOf(Instance(responses[1].rows[2], FALSE))
    /\ IdOf(Val(result)) = IdOf(Instance(responses[1].rows[1], FALSE))

\* the tokens of a str: its maximal runs of characters that are no whitespace
Tokens(str) ==
    {SubSeq(str, i, j) : <<i, j>> \in
        {ij \in (1..Len(str)) \X (1..Len(str)) :
            /\ ij[1] <= ij[2]
            /\ \A k \in ij[1]..ij[2] : str[k] \notin Whitespace
            /\ ij[1] = 1 \/ str[ij[1] - 1] \in Whitespace
            /\ ij[2] = Len(str) \/ str[ij[2] + 1] \in Whitespace}}

\* every token of the lower-cased search string occurs in the lower-cased
\* text of the public values of the instance
MatchesAllTokens(item, str) ==
    \A t \in Tokens(Lower(str)) : IsSubstring(t, Lower(PublicValuesText(Obj(item))))

SomeOtherItem == <<"s", "o", "m", "e", " ", "o", "t", "h", "e", "r", " ", "i", "t", "e", "m">>

\* C6: search(s) fetches the full collection with get_all(page=None,
\* minimal=False) and returns, in the order of the collection, exactly its
\* instances whose public values hold every token of s, compared in lower
\* case; search('some other item') returns none but the instance labelled
\* 'Some Other Item'.
C6_SearchAllTokens ==
    op = "search" =>
        /\ \A k \in 1..Len(requests) :
              /\ ~requests[k].minimal /\ requests[k].values = <<>>
              /\ IsNone(requests[k].limit) \/ requests[k].limit = Some(default_page_size)
        /\ pc = "returned" =>
              /\ IsSelection(Val(result), items,
                             {i \in FirstOccurrences(items) :
                                 MatchesAllTokens(items[i], args.search_string)})
              /\ args.search_string = SomeOtherItem =>
                    /\ \A k \in 1..Len(Val(result)) : Val(result)[k].row = 2
                    /\ (\E i \in 1..Len(items) : items[i].row = 2) => Len(Val(result)) = 1

\* the collection of the two instances 'Test Item' and 'Some Other Item' was
\* searched for 'some other item' and the second instance alone was returned
C6_Witness ==
    /\ op = "search" /\ pc = "returned"
    /\ args.search_string = SomeOtherItem
    /\ Len(items) = 2 /\ items[1].row = 1 /\ items[2].row = 2
    /\ result = Some(<<items[2]>>)

\* the number each row of CountRows stands for
ExpectedCount == <<100, 0, 7, 0, 0, 0>>

\* C10: count() issues one query, a count-only one; answered with no row it
\* returns 0, else the number in the count binding of the first row, 0 when
\* that row has no count value.
C10_CountFirstRow ==
    op = "count" =>
        /\ Len(requests) = 1 /\ Len(responses) = 1
        /\ requests[1].count /\ requests[1].values = <<>>
        /\ Delivered(responses[1]) =>
              /\ pc = "returned" /\ exception = ""
              /\ result = Some(IF responses[1].rows = <<>> THEN 0
                               ELSE ExpectedCount[responses[1].rows[1]])

\* count was answered with the rows '100' and '7' and returned 100
C10_Witness ==
    /\ op = "count" /\ pc = "returned"
    /\ Delivered(responses[1]) /\ responses[1].rows = <<1, 3>>
    /\ result = Some(100)

----------------------------------------------------------------------------
(* Properties of the decoder. *)

\* C7: whenever _from_wikidata is given a row that lacks the variable of a
\* field of the model, it raises nothing and leaves the field's default in
\* the attribute of that name (conformance is looked at only when
\* set_conformance was not asked to overwrite it).
C7_AbsentVariableGivesDefault ==
    ~IsNone(decode_call) =>
        LET call == Val(decode_call)
            made == Val(decode_result)
        IN  \A i \in 1..Len(call.fields) :
                LET field == call.fields[i] IN
                (/\ field.name \notin DOMAIN call.row
                 /\ ~(call.with_conformance /\ field.name = "conformance")) =>
                    /\ made.raised = ""
                    /\ made.obj[field.name] = field.default

\* a row that binds main but not the variable of a WikidataEntityField
\* without default: the decoder raised TypeError
C7_Witness ==
    /\ ~IsNone(decode_call)
    /\ "main" \in DOMAIN Val(decode_call).row
    /\ "extra" \notin DOMAIN Val(decode_call).row
    /\ \E i \in 1..Len(Val(decode_call).fields) :
          /\ Val(decode_call).fields[i].name = "extra"
          /\ Val(decode_call).fields[i].kind = "WikidataEntityField"
          /\ IsNone(Val(decode_call).fields[i].default)
    /\ Val(decode_result).raised = "TypeError"

----------------------------------------------------------------------------
(* Properties of the transport call. *)

\* C8: a call of _execute_query either returns the array results.bindings of
\* the answer or raises DjangoWikidataAPIException, and it raises whenever
\* the transport failed, the status is no 2xx or the body is no JSON object
\* with an array at results.bindings.
C8_ReturnsBindingsOrRaises ==
    ~IsNone(exec_call) =>
        LET h == Val(exec_call).http
            r == Val(exec_result).outcome
        IN  /\ r.raised \in {"", "DjangoWikidataAPIException"}
            /\ r.raised = "" =>
                  /\ Delivered(h)
                  /\ r.returned_type = "array"
                  /\ r.returned = Some(h.rows)
            /\ ~Delivered(h) => r.raised = "DjangoWikidataAPIException"

\* the body {"results": {"bindings": null}} with status 200: the call
\* returned None
C8_Witness ==
    /\ ~IsNone(exec_call)
    /\ Val(exec_call).http.status = 200 /\ Val(exec_call).http.bindings = "null"
    /\ Val(exec_result).outcome.raised = ""
    /\ IsNone(Val(exec_result).outcome.returned)

\* C9, as claimed: one request per call, a GET when the compiled query has
\* fewer than 1000 characters and a POST when it has 1000 or more.
C9_MethodByCompiledLength ==
    ~IsNone(exec_call) =>
        /\ Len(Val(exec_result).sent) = 1
        /\ Val(exec_result).sent[1].method =
              IF Val(exec_call).query_length < 1000 THEN "GET" ELSE "POST"

\* C9, amended: one request per call, a GET when the query as sent (the
\* compiled query behind the 27 characters of the tool comment line) has
\* fewer than 1000 characters, that is when the compiled query has fewer
\* than 973, and a POST otherwise.
C9_MethodBySentLength ==
    ~IsNone(exec_call) =>
        /\ Len(Val(exec_result).sent) = 1
        /\ Val(exec_result).sent[1].length = Val(exec_call).query_length + 27
        /\ Val(exec_result).sent[1].method =
              IF Val(exec_call).query_length < 973 THEN "GET" ELSE "POST"

\* a compiled query of 999 characters was sent by POST
C9_Witness ==
    /\ ~IsNone(exec_call)
    /\ Val(exec_call).query_length = 999
    /\ Val(exec_result).sent = <<[method |-> "POST", length |-> 1026]>>

----------------------------------------------------------------------------
(* Properties of the compiled query. *)

\* a direct call of build_query has returned a compiled query
QueryCompiled == ~IsNone(query_call) /\ Val(query_result).raised = ""

\* the words of the compiled query
CompiledWords == Val(query_result).words

\* the places where the words sub stand one after the other in words
Occurrences(words, sub) ==
    {i \in 1..(Len(words) - Len(sub) + 1) : SubSeq(words, i, i + Len(sub) - 1) = sub}

\* the identifier list the call passed, empty when it passed none
ValuesOfCall == IF IsNone(Val(query_call).values) THEN <<>> ELSE Val(Val(query_call).values)

\* the words of "VALUES ?main {wd:<id> wd:<id> ...}" for the ids, in order
ValuesClauseWords(ids) ==
    <<"VALUES", "?main">>
    \o [i \in 1..Len(ids) |->
           (IF i = 1 THEN "{" ELSE "") \o "wd:" \o ids[i] \o (IF i = Len(ids) THEN "}" ELSE "")]

\* the query has exactly one VALUES clause, the one that lists ids, when ids
\* is not empty, and none when it is
ValuesClauseFor(words, ids) ==
    IF ids = <<>> THEN Occurrences(words, <<"VALUES">>) = {}
    ELSE /\ Cardinality(Occurrences(words, <<"VALUES">>)) = 1
         /\ Occurrences(words, ValuesClauseWords(ids)) # {}

Least(S) == CHOOSE i \in S : \A j \in S : i <= j

\* the words between the first SELECT DISTINCT of a query and the WHERE that
\* follows it: the outer projection of a query that does not count
OuterProjection(words) ==
    LET d == Least({i \in 1..Len(words) : words[i] = "DISTINCT"})
        w == Least({i \in (d + 1)..Len(words) : words[i] = "WHERE"})
    IN  SubSeq(words, d + 1, w - 1)

\* the projection binds the variable of the field: it has ?<name>, or an
\* expression that ends in AS ?<name>)
Projects(projection, field) ==
    \E i \in 1..Len(projection) :
        projection[i] \in {"?" \o field.name, "?" \o field.name \o ")"}

\* a direct call of build_query with minimal=True and count=False has
\* returned a compiled query
MinimalCompiled == QueryCompiled /\ Val(query_call).minimal /\ ~Val(query_call).count

\* the fields of the model of the call that take part in queries at all
\* (a conformance field renders nothing, whatever its flags)
SparqlFieldsOfCall ==
    SelectSeq(Val(query_call).fields, LAMBDA f : f.kind # "WikidataConformanceField")

\* C12: in a query compiled with minimal=True every field that is required
\* or marked show_in_minimal is in the outer projection, so a field is left
\* out only if it is neither.
C12_RequiredStaysInMinimalProjection ==
    MinimalCompiled =>
        \A i \in 1..Len(SparqlFieldsOfCall) :
            LET f == SparqlFieldsOfCall[i]
            IN  (f.required \/ f.show_in_minimal)
                    => Projects(OuterProjection(CompiledWords), f)

\* a model declares extra = WikidataField(properties=["P31"], required=True)
\* and build_query(minimal=True) has compiled a query that keeps the
\* mandatory pattern of the field but leaves ?extra out of the projection
C12_Witness ==
    /\ MinimalCompiled
    /\ IsNone(Val(query_call).values)
    /\ Val(query_call).fields[1] =
          Descriptor("extra", "WikidataField", TRUE, FALSE, <<"P31">>, <<>>, <<>>)
    /\ Occurrences(CompiledWords, <<"{?main", "wdt:P31", "?extra.">>) # {}
    /\ ~Projects(OuterProjection(CompiledWords), Val(query_call).fields[1])
    /\ OuterProjection(CompiledWords) =
          <<"?main", "?mainLabel", "(?mainLabel", "AS", "?label)",
            "?mainDescription", "(?mainDescription", "AS", "?description)">>

\* the field of the model of the call declared under the name, in a sequence
\* (empty when there is none)
FieldNamed(name) == SelectSeq(Val(query_call).fields, LAMBDA f : f.name = name)

\* C13: in a query compiled with minimal=True the outer projection has the
\* identifier (main), the label and the description, and has no field whose
\* show_in_minimal is false and which is not required.
C13_MinimalProjection ==
    MinimalCompiled =>
        /\ \A name \in {"main", "label", "description"} :
              Projects(OuterProjection(CompiledWords), FieldNamed(name)[1])
        /\ \A i \in 1..Len(SparqlFieldsOfCall) :
              LET f == SparqlFieldsOfCall[i]
              IN  (~f.show_in_minimal /\ ~f.required)
                      => ~Projects(OuterProjection(CompiledWords), f)

\* a model declares extra = WikidataDescriptionField() (not required, not
\* shown in minimal) and build_query(minimal=True) has compiled a query
\* whose projection still has ?extra, while alt_labels is left out
C13_Witness ==
    /\ MinimalCompiled
    /\ Val(query_call).fields[1] =
          Descriptor("extra", "WikidataDescriptionField", FALSE, FALSE, <<>>, <<>>, <<>>)
    /\ Projects(OuterProjection(CompiledWords), Val(query_call).fields[1])
    /\ ~Projects(OuterProjection(CompiledWords), FieldNamed("alt_labels")[1])

\* in the minimal query of every model whose own field is not of the label
\* or description class, main, label and description are projected and no
\* field that is neither required nor shown in minimal is
MinimalProjectionOfOtherModels ==
    (MinimalCompiled /\ Val(query_call).fields[1].kind \notin LabelKinds)
        => C13_MinimalProjection

----------------------------------------------------------------------------
(* Properties of the filter fragments. *)

\* the fragment of the field rendered last: to_wikidata_outer_filter for an
\* alt-label field, to_wikidata_filter for any other
RenderedFragment ==
    IF Val(filter_call).kind = "WikidataAltLabelField" THEN Val(filter_result).outer_filter
    ELSE Val(filter_result).filter.text

\* the fragment is "OPTIONAL { ... }"
WrappedInOptional(fragment) ==
    LET words == TextWords(fragment)
    IN  /\ Len(words) >= 3
        /\ SubSeq(words, 1, 2) = <<"OPTIONAL", "{">>
        /\ words[Len(words)] = "}"

\* the classes whose to_wikidata_filter and to_wikidata_outer_filter both
\* render the empty string
NoFilterKinds == LabelKinds \cup {"WikidataConformanceField"}

\* the filter fragments of a field have been rendered and none raised
FragmentRendered == ~IsNone(filter_call) /\ Val(filter_result).filter.raised = ""

\* C14 as stated: for every field variant the fragment is wrapped in
\* OPTIONAL { ... } when the field is not required and is the bare pattern
\* when it is.
C14_OptionalIffNotRequired ==
    FragmentRendered =>
        (WrappedInOptional(RenderedFragment) <=> ~Val(filter_call).required)

\* C14 amended: the label, description and conformance fields render the
\* empty fragment whether required or not; for every other variant the
\* fragment is wrapped in OPTIONAL { ... } exactly when the field is not
\* required, and what is wrapped is the bare pattern the same field renders
\* when required.
C14_OptionalIffNotRequiredWhereRendered ==
    FragmentRendered =>
        LET f == Val(filter_call)
            words == TextWords(RenderedFragment)
            twin == [f EXCEPT !.required = TRUE]
            bare == IF f.kind = "WikidataAltLabelField"
                    THEN to_wikidata_outer_filter(twin, ENGLISH_LANG)
                    ELSE to_wikidata_filter(twin, WIKIDATA_PROP_PREFIX, WIKIDATA_ENTITY_PREFIX,
                                            WIKIDATA_SUBCLASS_PROP).text
        IN  IF f.kind \in NoFilterKinds
            THEN /\ Val(filter_result).filter.text = <<>>
                 /\ Val(filter_result).outer_filter = <<>>
            ELSE /\ WrappedInOptional(RenderedFragment) <=> ~f.required
                 /\ ~WrappedInOptional(bare)
                 /\ words = IF f.required THEN TextWords(bare)
                            ELSE <<"OPTIONAL", "{">> \o TextWords(bare) \o <<"}">>

\* the fragment of WikidataField(properties=["P31", "P279"]), not required,
\* has been rendered: the optional pattern of tests/test_fields.py
C14_Witness ==
    /\ FragmentRendered
    /\ Val(filter_call) =
          Descriptor("extra", "WikidataField", FALSE, FALSE, <<"P31", "P279">>, <<>>, <<>>)
    /\ TextWords(RenderedFragment) =
          <<"OPTIONAL", "{", "?main", "wdt:P31|wdt:P279", "?extra.", "}">>

----------------------------------------------------------------------------
(* Properties of the entity id decode. *)

\* a WikidataEntityField has decoded a row that binds its variable to a raw
\* value
EntityDecoded ==
    /\ ~IsNone(field_call)
    /\ Val(field_call).field.kind \in EntityKinds
    /\ Val(field_call).field.name \in DOMAIN Val(field_call).row
    /\ ~IsNone(Val(field_call).row[Val(field_call).field.name])

\* the raw value of that row
RawValue == Val(Val(field_call).row[Val(field_call).field.name])

\* s[i..j] is an identifier of the entity pattern: Q or q, then digits
IsEntityIdAt(s, i, j) ==
    /\ 1 <= i /\ i < j /\ j <= Len(s)
    /\ s[i] \in {"Q", "q"}
    /\ \A k \in (i + 1)..j : s[k] \in Digits

\* s[i..j] is the identifier the raw value s holds: none starts before it,
\* and it takes every digit that follows
IsFirstEntityId(s, i, j) ==
    /\ IsEntityIdAt(s, i, j)
    /\ \A a \in 1..(i - 1), b \in 1..Len(s) : ~IsEntityIdAt(s, a, b)
    /\ ~IsEntityIdAt(s, i, j + 1)

\* C15: the entity id decode of a raw value that holds an identifier of the
\* entity pattern returns exactly that identifier, bare; of a raw value that
\* holds none it returns the raw value unchanged; it raises in neither case.
C15_EntityIdExtractedOrPassedThrough ==
    EntityDecoded =>
        /\ Val(field_result).raised = ""
        /\ \A i, j \in 1..Len(RawValue) :
              IsFirstEntityId(RawValue, i, j)
                  => Val(field_result).value = Some(SubSeq(RawValue, i, j))
        /\ (\A i, j \in 1..Len(RawValue) : ~IsEntityIdAt(RawValue, i, j))
              => Val(field_result).value = Some(RawValue)
        /\ RawValue = EntityUri(<<"Q", "1", "2", "3">>)
              => Val(field_result).value = Some(<<"Q", "1", "2", "3">>)

\* http://www.wikidata.org/entity/Q123 has been decoded to Q123
C15_Witness ==
    /\ EntityDecoded
    /\ RawValue = EntityUri(<<"Q", "1", "2", "3">>)
    /\ Val(field_result) = [raised |-> "", value |-> Some(<<"Q", "1", "2", "3">>)]

\* a raw value without identifier, the entity URL prefix followed by P31,
\* has been decoded to itself
C15_WitnessPassedThrough ==
    /\ EntityDecoded
    /\ RawValue = WIKIDATA_ENTITY_PREFIX_URL \o <<"P", "3", "1">>
    /\ Val(field_result) = [raised |-> "", value |-> Some(RawValue)]

----------------------------------------------------------------------------
(* Properties of the order of the produced instances. *)

RECURSIVE RowsInFetchOrder(_)
\* the rows of the answers, page after page, each page in the order of its rows
RowsInFetchOrder(https) ==
    IF https = <<>> THEN <<>>
    ELSE (IF Delivered(Head(https)) THEN Head(https).rows ELSE <<>>)
         \o RowsInFetchOrder(Tail(https))

\* C16: the instances the driver has produced are, page after page in the
\* order the pages were fetched, one instance per row of the answer in the
\* order of the rows; a single-page get_all returns exactly that sequence,
\* nothing resorted, dropped or merged.
C16_InstancesInFetchAndRowOrder ==
    (op \in {"get_all", "search"} /\ pc # "raised") =>
        LET rows == RowsInFetchOrder(responses)
        IN  /\ Len(items) = Len(rows)
            /\ \A k \in 1..Len(rows) :
                  /\ items[k] = Instance(rows[k], args.with_conformance)
                  /\ Obj(items[k])["label"] = EndpointRows[rows[k]].label
                  /\ IdOf(items[k]) =
                        extract_from_string_by_regex(Val(EndpointRows[rows[k]].main), None)
            /\ (op = "get_all" /\ pc = "returned" /\ SinglePage(args.page)) =>
                  /\ Len(responses) = 1
                  /\ result = Some(items)

\* an all-pages fetch has returned after a page of two rows and a page of
\* one: three instances were produced, in that order
C16_Witness ==
    /\ op = "get_all" /\ pc = "returned" /\ IsNone(args.page)
    /\ Len(responses) >= 2
    /\ Len(responses[1].rows) = 2 /\ Len(responses[2].rows) = 1
    /\ Len(items) = 3
    /\ <<items[1].row, items[2].row, items[3].row>> = responses[1].rows \o responses[2].rows

----------------------------------------------------------------------------
(* Properties of the instances. *)

\* _from_wikidata was called directly and returned an instance
InstanceDecoded == ~IsNone(decode_call) /\ Val(decode_result).raised = ""

\* C17: the instance the constructor makes without arguments has None under
\* every descriptor key; an instance the decoder returns has as id the
\* decoded value of its main field, and that id is not empty; its
\* conformance is None unless conformance was asked for, and is then, the
\* model having no schema, the record with focus id, reason 'No Schema
\* associated with this model' and result 'n/a'.
C17_InstanceShape ==
    ~IsNone(decode_call) =>
        LET call == Val(decode_call)
            obj == Val(decode_result).obj
        IN  /\ ~IsNone(created)
            /\ \A key \in FieldNames(call.fields) : Val(created)[key] = None
            /\ InstanceDecoded =>
                  /\ obj["id"] = obj["main"]
                  /\ Truthy(obj["id"])
                  /\ LET raw == Val(call.row["main"])
                     IN  \/ \E i, j \in 1..Len(raw) :
                               /\ IsFirstEntityId(raw, i, j)
                               /\ obj["id"] = Some(SubSeq(raw, i, j))
                         \/ /\ \A i, j \in 1..Len(raw) : ~IsEntityIdAt(raw, i, j)
                            /\ obj["id"] = Some(raw)
                  /\ IF call.with_conformance
                     THEN obj["conformance"] =
                             Some([focus |-> obj["id"],
                                   reason |-> "No Schema associated with this model",
                                   result |-> "n/a"])
                     ELSE obj["conformance"] = None

\* a row that binds main to the URI of Q42 has been decoded with
\* conformance asked for: the instance has the id Q42 and the 'n/a' record
C17_Witness ==
    /\ InstanceDecoded
    /\ Val(decode_call).with_conformance
    /\ Val(decode_call).fields = BaseFields
    /\ Val(created)["main"] = None
    /\ Val(decode_call).row["main"] = Some(EntityUri(<<"Q", "4", "2">>))
    /\ Val(decode_result).obj["id"] = Some(<<"Q", "4", "2">>)
    /\ Val(Val(decode_result).obj["conformance"]).result = "n/a"

----------------------------------------------------------------------------
(* Properties of the end of the pagination. *)

\* a page of a get_all or search call has been fetched and decoded
PageFetched == op \in {"get_all", "search"} /\ Len(requests) >= 1 /\ pc # "raised"

\* the page fetched last, its offset and the number of its rows
LastPage == FirstPage(args.page) + Len(requests) - 1
LastOffset == (LastPage - 1) * PageSizeOfCall
LastApiCount == Len(responses[Len(responses)].rows)

\* the limit in force when the call starts: the smaller of limit and the
\* length of the identifier list when both are given, else the one that is
\* given, None when neither is
LimitInForce ==
    IF Truthy(args.values)
    THEN IF TruthyInt(args.limit) THEN Some(Min(Val(args.limit), Len(Val(args.values))))
         ELSE Some(Len(Val(args.values)))
    ELSE args.limit

\* what is left of that limit after the rows of the pages fetched so far
LimitLeft ==
    IF TruthyInt(LimitInForce) THEN Some(Val(LimitInForce) - RowsServed(responses))
    ELSE LimitInForce

\* one of the four conditions that end the fetch holds after the last page
StopCondition ==
    \/ SinglePage(args.page)
    \/ ~Truthy(args.values) /\ LastApiCount = 0
    \/ ~IsNone(LimitLeft) /\ Val(LimitLeft) <= 0
    \/ Truthy(args.values) /\ LastOffset >= Len(Val(args.values))

\* C18: after each page a further page request is issued exactly when none
\* of these holds: the caller asked for a single (integer) page; no
\* identifier list was given and the page had no rows; a limit is in force
\* (the limit argument or the length of the identifier list) and what is
\* left of it is 0 or below; an identifier list was given and the offset of
\* the page, (page-1)*page_size, has reached its length.
C18_FurtherRequestIffNoStopCondition ==
    PageFetched =>
        /\ finished <=> StopCondition
        /\ pc = "returned" <=> StopCondition
        /\ pc = "running" <=> ~StopCondition
        /\ remaining_limit = LimitLeft
        /\ StopCondition => ~ENABLED FetchPage
        /\ (~StopCondition /\ Len(requests) < MaxRequests) => ENABLED FetchPage

\* an all-pages fetch of three identifiers, page size 2, stopped after its
\* second page, whose rows used up what was left of the limit in force, and
\* went on after its first
C18_Witness ==
    /\ PageFetched /\ op = "get_all" /\ IsNone(args.page)
    /\ Truthy(args.values) /\ Len(Val(args.values)) = 3 /\ args.page_size = Some(2)
    /\ Len(requests) = 2
    /\ Len(responses[1].rows) = 2 /\ Len(responses[2].rows) = 1
    /\ LimitLeft = Some(0) /\ LastOffset = 2
    /\ pc = "returned"

\* C19: whenever get_all is called with a non-empty identifier list, every
\* page request carries a non-empty slice of the list as its VALUES, whatever
\* page_size and limit are and however many rows the answers have; no
\* request is made for an empty slice.
C19_NoRequestForEmptySlice ==
    (op = "get_all" /\ Truthy(args.values)) =>
        \A k \in 1..Len(requests) :
            /\ requests[k].values # <<>>
            /\ requests[k].values = SliceOfRequest(k)

\* an all-pages fetch of three identifiers, page size 2, whose first two
\* answers had one row each: the third request is for the empty slice
\* values[4:6] and so has no VALUES clause
C19_Witness ==
    /\ op = "get_all" /\ IsNone(args.page) /\ IsNone(args.limit)
    /\ Truthy(args.values) /\ Len(Val(args.values)) = 3 /\ args.page_size = Some(2)
    /\ Len(requests) = 3
    /\ Len(responses[1].rows) = 1 /\ Len(responses[2].rows) = 1
    /\ requests[1].values = <<Qid(1), Qid(2)>>
    /\ requests[2].values = <<Qid(3)>>
    /\ requests[3].values = <<>>
    /\ requests[3].limit = Some(2)

\* an all-pages fetch that has not raised
AllPagesFetch == op \in {"get_all", "search"} /\ IsNone(args.page) /\ pc # "raised"

\* the number of requests an all-pages fetch with a positive limit or a
\* non-empty identifier list cannot exceed: with identifiers the offset
\* reaches the length of the list at request ceil(n/s) + 1; with a limit
\* alone every page but the last takes at least one row off it
RequestBound ==
    IF Truthy(args.values) THEN CeilDiv(Len(Val(args.values)), PageSizeOfCall) + 1
    ELSE Val(args.limit)

\* the fetch was given a positive limit or a non-empty identifier list
Bounded == (TruthyInt(args.limit) /\ Val(args.limit) > 0) \/ Truthy(args.values)

\* an all-pages fetch with a positive limit or a non-empty identifier list
\* makes at most RequestBound requests and has returned once it made them
FinishesWithinBound ==
    (AllPagesFetch /\ Bounded) =>
        /\ Len(requests) <= RequestBound
        /\ Len(requests) = RequestBound => pc = "returned"

\* an all-pages fetch has returned exactly when a page had no rows: none of
\* the earlier pages was empty, and the fetch is over once the last one is
FinishesAtEmptyPage ==
    /\ \A k \in 1..(Len(responses) - 1) : Len(responses[k].rows) > 0
    /\ Len(requests) >= 1 => (pc = "returned" <=> LastApiCount = 0)

\* C20: an all-pages fetch finishes after finitely many page requests,
\* however the endpoint answers, whenever a positive limit or a non-empty
\* identifier list is supplied; with neither it finishes exactly when some
\* page returns zero rows.
C20_AllPagesFetchFinishes ==
    /\ FinishesWithinBound
    /\ (AllPagesFetch /\ ~Bounded) => FinishesAtEmptyPage

\* get_all(page=None, limit=0) has returned after a first page of two rows
C20_Witness ==
    /\ AllPagesFetch /\ op = "get_all" /\ pc = "returned"
    /\ args.limit = Some(0) /\ ~Truthy(args.values)
    /\ Len(requests) = 1
    /\ Len(responses[1].rows) = 2

\* with limit None and no identifier list the fetch finishes exactly when a
\* page returns zero rows
FinishesAtEmptyPageWithoutLimit ==
    (AllPagesFetch /\ ~Bounded /\ IsNone(args.limit)) => FinishesAtEmptyPage

----------------------------------------------------------------------------
(* Properties of remaining_limit and of the limit of each page query. *)

\* a get_all or search call
FetchCall == op \in {"get_all", "search"}

\* what is left of the limit in force before the k-th request: the limit in
\* force minus the rows of the answers before it
LimitLeftBefore(k) ==
    IF TruthyInt(LimitInForce)
    THEN Some(Val(LimitInForce) - RowsServed(SubSeq(responses, 1, k - 1)))
    ELSE LimitInForce

\* remaining_limit starts as the limit in force and comes down by the rows of
\* each page fetched
RemainingLimitCountsDown ==
    FetchCall =>
        /\ (pc = "running" /\ requests = <<>>) => remaining_limit = LimitInForce
        /\ PageFetched => remaining_limit = LimitLeft
        /\ pc = "raised" => remaining_limit = LimitLeftBefore(Len(requests))

\* C21: remaining_limit starts as min(limit, len(values)) when a limit and
\* an identifier list are both given and as the one that is given otherwise,
\* and comes down by the rows of each page fetched; the limit of each page
\* query is min(remaining_limit, page_size) whenever a limit is in force (a
\* caller limit or the length of an identifier list), and page_size only
\* when none is.
C21_QueryLimitIsRemainingLimitCapped ==
    /\ RemainingLimitCountsDown
    /\ FetchCall =>
          \A k \in 1..Len(requests) :
              requests[k].limit =
                  IF IsNone(LimitInForce) THEN Some(PageSizeOfCall)
                  ELSE Some(Min(Val(LimitLeftBefore(k)), PageSizeOfCall))

\* get_all over one identifier with page size 2 and no limit: remaining_limit
\* was 1 when the only query was built, and the query carries LIMIT 2
C21_Witness ==
    /\ op = "get_all" /\ IsNone(args.limit) /\ args.page_size = Some(2)
    /\ Truthy(args.values) /\ Len(Val(args.values)) = 1
    /\ Len(requests) = 1
    /\ LimitLeftBefore(1) = Some(1)
    /\ requests[1].values = <<Qid(1)>>
    /\ requests[1].limit = Some(2)

\* the limit of each page query is min(remaining_limit, page_size) when the
\* caller passed a limit other than 0, and page_size otherwise
QueryLimitWithCallerLimit ==
    FetchCall =>
        \A k \in 1..Len(requests) :
            requests[k].limit =
                IF TruthyInt(args.limit)
                THEN Some(Min(Val(LimitLeftBefore(k)), PageSizeOfCall))
                ELSE Some(PageSizeOfCall)

----------------------------------------------------------------------------
(* Properties of the sequence of page requests. *)

\* the instances of all rows answered so far, page after page
InstancesOfRowsAnswered ==
    LET rows == RowsInFetchOrder(responses)
    IN  [i \in 1..Len(rows) |-> Instance(rows[i], args.with_conformance)]

\* the k-th query of an all-pages fetch is for the rows from offset
\* (k-1)*page_size on: by its OFFSET clause (none for offset 0), or, over an
\* identifier list, by the slice of the list that starts there
RequestAtOffset(query, k) ==
    LET offset == (k - 1) * PageSizeOfCall
    IN  IF Truthy(args.values)
        THEN /\ query.values = Slice(Val(args.values), offset, offset + Val(query.limit))
             /\ IsNone(query.offset)
        ELSE /\ query.offset = (IF offset = 0 THEN None ELSE Some(offset))
             /\ query.values = <<>>

\* C22: in an all-pages fetch the k-th page request uses offset
\* (k-1)*page_size, so the offsets grow strictly and none is asked for twice;
\* a page request is issued only when every row of the pages before it has
\* been decoded and handed over (nothing fetched ahead, nothing reordered).
C22_PagesInOffsetOrderAfterDecoding ==
    [][ (op' \in {"get_all", "search"} /\ IsNone(args'.page) /\ requests' # requests) =>
            LET k == Len(requests')
            IN  /\ k = Len(requests) + 1
                /\ SubSeq(requests', 1, k - 1) = requests
                /\ RequestAtOffset(requests'[k], k)
                /\ \A j \in 1..(k - 1) : (j - 1) * PageSizeOfCall < (k - 1) * PageSizeOfCall
                /\ items = InstancesOfRowsAnswered
                /\ k > 1 => Delivered(responses[k - 1])
      ]_vars

\* an all-pages fetch without identifier list, page size 2: the requests had
\* offsets 0, 2 and 4, and the four rows of the first two pages were handed
\* over before the third
C22_Witness ==
    /\ op = "get_all" /\ IsNone(args.page) /\ ~Truthy(args.values)
    /\ args.page_size = Some(2) /\ IsNone(args.limit)
    /\ Len(requests) = 3
    /\ <<requests[1].offset, requests[2].offset, requests[3].offset>> = <<None, Some(2), Some(4)>>
    /\ Len(responses[1].rows) = 2 /\ Len(responses[2].rows) = 2
    /\ SubSeq(items, 1, 4) = [i \in 1..4 |-> Instance((responses[1].rows \o responses[2].rows)[i],
                                                      args.with_conformance)]

----------------------------------------------------------------------------
(* Properties of the row ranges of single pages. *)

\* the rows of the ordered result a query without VALUES asks for: from
\* RangeStart up to, not including, RangeEnd
RangeStart(query) == IF IsNone(query.offset) THEN 0 ELSE Val(query.offset)
RangeEnd(query) == RangeStart(query) + Val(query.limit)

\* a single-page get_all without identifier list, for a page from 1 on, has
\* issued its query
SinglePageScan ==
    /\ op = "get_all" /\ TruthyInt(args.page) /\ ~Truthy(args.values)
    /\ Len(requests) = 1

\* the query of the same call for the page after this one
QueryOfNextPage ==
    LET next == [args EXCEPT !.page = Some(Val(args.page) + 1)]
    IN  PageQuery(next, FirstPage(next.page), InitialRemainingLimit(next.limit, next.values))

\* C23: for single-page fetches without identifier list, the calls for page
\* p and for page p+1 with the same limit and page_size ask for adjacent
\* ranges of the ordered result: the range of page p+1 starts where the range
\* of page p ends, for every limit and page_size.
C23_ConsecutivePagesAdjacent ==
    SinglePageScan => RangeStart(QueryOfNextPage) = RangeEnd(requests[1])

\* get_all(page=1, limit=1, page_size=2) asked for row 0 alone, and the same
\* call for page 2 asks for the rows from 2 on: row 1 is on neither page
C23_Witness ==
    /\ SinglePageScan
    /\ args.page = Some(1) /\ args.limit = Some(1) /\ args.page_size = Some(2)
    /\ RangeStart(requests[1]) = 0 /\ RangeEnd(requests[1]) = 1
    /\ RangeStart(QueryOfNextPage) = 2

\* consecutive pages are adjacent when the limit is None, 0, or at least
\* page_size; with a smaller limit the rows from limit to page_size - 1 of
\* every page are on no page
ConsecutivePagesAdjacentUnlessLimitSmaller ==
    SinglePageScan =>
        IF TruthyInt(args.limit) /\ Val(args.limit) < PageSizeOfCall
        THEN /\ RangeEnd(requests[1]) = RangeStart(requests[1]) + Val(args.limit)
             /\ RangeStart(QueryOfNextPage) = RangeStart(requests[1]) + PageSizeOfCall
        ELSE RangeStart(QueryOfNextPage) = RangeEnd(requests[1])

----------------------------------------------------------------------------
(* Properties of the clauses of the compiled query. *)

\* the variables the fields of the call can name in GROUP BY
GroupVariablesOfCall ==
    LET fields == Val(query_call).fields
    IN  {"?" \o fields[i].name : i \in 1..Len(fields)}
        \cup {FromName(fields[i]) : i \in 1..Len(fields)}

\* no field of the call has a fragment for GROUP BY
NoGroupFragments ==
    \A i \in 1..Len(Val(query_call).fields) :
        to_wikidata_group(Val(query_call).fields[i]) = <<>>

\* no field of the call whose filters the query takes has a fragment for
\* the WHERE clause, inner or outer
NoFilterFragments ==
    LET c == Val(query_call)
        filtered == FilteredFields(c.fields, c.count \/ c.minimal)
    IN  \A i \in 1..Len(filtered) :
            /\ Strip(to_wikidata_filter(filtered[i], WIKIDATA_PROP_PREFIX, WIKIDATA_ENTITY_PREFIX,
                                        WIKIDATA_SUBCLASS_PROP).text) = <<>>
            /\ to_wikidata_outer_filter(filtered[i], ENGLISH_LANG) = <<>>

\* the word at place i of words, "" beyond its end
WordAt(words, i) == IF i \in 1..Len(words) THEN words[i] ELSE ""

\* the WHERE block of the query that takes the filters holds no pattern of a
\* field: with identifiers SERVICE follows the VALUES clause at once, without
\* them the inner block is empty
FiltersOmitted(words) ==
    IF ValuesOfCall # <<>>
    THEN Occurrences(words, ValuesClauseWords(ValuesOfCall) \o <<"SERVICE">>) # {}
    ELSE \E i \in Occurrences(words, <<"WHERE">>) :
            \/ WordAt(words, i + 1) = "{}" /\ WordAt(words, i + 2) \in {"ORDER", "LIMIT", "OFFSET", "}"}
            \/ /\ WordAt(words, i + 1) = "{" /\ WordAt(words, i + 2) = "}"
               /\ WordAt(words, i + 3) \in {"ORDER", "LIMIT", "OFFSET", "}"}

\* C24: whatever the arguments of build_query and the model, the compiled
\* query has no clause keyword without its argument: GROUP BY is followed by
\* a variable, VALUES ?main by the non-empty set of identifiers passed,
\* LIMIT and OFFSET by the number passed; an empty or absent identifier
\* list, an empty set of filter fragments and an empty list of GROUP BY
\* fragments each leave their clause out.
C24_NoKeywordWithoutArgument ==
    QueryCompiled =>
        LET words == CompiledWords
            c == Val(query_call)
        IN  /\ \A i \in 1..Len(words) :
                  /\ words[i] = "GROUP" =>
                        /\ WordAt(words, i + 1) = "BY"
                        /\ WordAt(words, i + 2) \in GroupVariablesOfCall
                  /\ words[i] = "VALUES" =>
                        /\ ValuesOfCall # <<>>
                        /\ i \in Occurrences(words, ValuesClauseWords(ValuesOfCall))
                  /\ words[i] = "LIMIT" =>
                        /\ TruthyInt(c.limit)
                        /\ WordAt(words, i + 1) = ToString(Val(c.limit))
                  /\ words[i] = "OFFSET" =>
                        /\ TruthyInt(c.offset)
                        /\ WordAt(words, i + 1) = ToString(Val(c.offset))
            /\ ValuesOfCall = <<>> => Occurrences(words, <<"VALUES">>) = {}
            /\ NoGroupFragments => Occurrences(words, <<"GROUP">>) = {}
            /\ NoFilterFragments => FiltersOmitted(words)

\* build_query(values=[], limit=0) on a model none of whose fields has a
\* GROUP BY fragment and, in the minimal query, a filter fragment: the query
\* has no GROUP BY, no VALUES, no LIMIT and no OFFSET clause, and its inner
\* WHERE block is empty
C24_Witness ==
    /\ QueryCompiled
    /\ Val(query_call).fields = UngroupedQueryFields
    /\ Val(query_call).values = Some(<<>>) /\ Val(query_call).limit = Some(0)
    /\ IsNone(Val(query_call).offset) /\ Val(query_call).minimal /\ ~Val(query_call).count
    /\ NoGroupFragments /\ NoFilterFragments
    /\ \A w \in {"GROUP", "VALUES", "LIMIT", "OFFSET", "OPTIONAL"} :
          Occurrences(CompiledWords, <<w>>) = {}
    /\ Occurrences(CompiledWords, <<"WHERE", "{}", "ORDER", "BY", "?main", "}", "SERVICE">>) # {}

----------------------------------------------------------------------------
(* Properties of fields declared without properties. *)

\* the filter fragment of a field of one of the classes built on properties
\* has been asked for, the field having been declared with none
RenderedWithoutProperties ==
    /\ ~IsNone(filter_call)
    /\ Val(filter_call).kind \in PropertyKinds
    /\ Val(filter_call).properties = <<>>

\* C25: rendering the filter fragment of a field of a class built on
\* properties (scalar, list, entity list, entity filter) that was declared
\* with an empty or no property list fails with an error, in the constructor
\* or in the rendering; no fragment with an empty predicate is returned.
C25_NoPropertiesRaises ==
    RenderedWithoutProperties => Val(filter_result).filter.raised # ""

\* WikidataListField(required=True) bound to "extra" has rendered the triple
\* pattern "?main  ?extra_item ." with nothing between subject and object
C25_Witness ==
    /\ RenderedWithoutProperties
    /\ Val(filter_call).kind = "WikidataListField" /\ Val(filter_call).required
    /\ Val(filter_result).filter.raised = ""
    /\ TextWords(Val(filter_result).filter.text) = <<"?main", "?extra_item", ".">>

\* without properties the scalar classes raise in to_wikidata_filter and the
\* entity list class raises in its constructor; the list class and the entity
\* filter class return a fragment
NoPropertiesRaisesByClass ==
    RenderedWithoutProperties =>
        (Val(filter_result).filter.raised = "AssertionError"
            <=> Val(filter_call).kind \in {"WikidataField", "WikidataCharField",
                                           "WikidataEntityListField"})

\* with properties every one of these classes returns a fragment that has
\* the property path between subject and object
PropertiesRendered ==
    (~IsNone(filter_call) /\ Val(filter_call).kind \in PropertyKinds
        /\ Val(filter_call).properties = <<"P31">> /\ Val(filter_call).required)
        => /\ Val(filter_result).filter.raised = ""
           /\ SubSeq(TextWords(Val(filter_result).filter.text), 1, 2) = <<"?main", "wdt:P31">>

----------------------------------------------------------------------------
(* Properties of the state of the field objects. *)

\* the attributes of the field object that are no part of the name binding
\* (set_name assigns name and public)
ConfiguredState(obj) == [wikidata_filter |-> field_objs[obj].wikidata_filter]

\* C26: no render method (to_wikidata_field, to_wikidata_inner_field,
\* to_wikidata_filter, to_wikidata_outer_filter, to_wikidata_service,
\* to_wikidata_group) changes an attribute of the field it is called on:
\* after any sequence of render calls and query compilations every field
\* object is as its constructor left it, apart from the name binding.
C26_RenderLeavesFieldAsConstructed ==
    \A obj \in FieldObjects :
        ConfiguredState(obj) = [wikidata_filter |-> NewFieldObject.wikidata_filter]

\* build_query(minimal=True) on WikidataItemBase has returned, and the main
\* field now has the attribute wikidata_filter = "" that it did not have
\* when constructed
C26_Witness ==
    /\ ~IsNone(fields_call)
    /\ Val(fields_call).op = "build_query" /\ Val(fields_call).cls = "WikidataItemBase"
    /\ Val(fields_result).raised = ""
    /\ NewFieldObject.wikidata_filter = None
    /\ field_objs["main"].wikidata_filter = Some(<<>>)

\* only the objects of the entity field classes are ever changed, and only
\* in wikidata_filter
OnlyEntityFieldsStore ==
    ~IsNone(declared) =>
        \A obj \in FieldObjects :
            FieldConfig(obj, Val(declared)).kind \notin StoringKinds
                => field_objs[obj].wikidata_filter = None

\* a step that is no call of to_wikidata_filter and no query compilation
\* leaves wikidata_filter of every field object as it was
OtherRendersLeaveFieldAlone ==
    [][ (~IsNone(fields_call') /\ Val(fields_call').op \notin {"to_wikidata_filter", "build_query"})
            => \A obj \in FieldObjects :
                  field_objs'[obj].wikidata_filter = field_objs[obj].wikidata_filter ]_vars


(* Properties of get_wikidata_fields. *)

\* the keys the classes of cls.__mro__ declare fields under
DeclaredKeys(cls) ==
    UNION {{ClassDict(Mro(cls)[i])[j][1] : j \in 1..Len(ClassDict(Mro(cls)[i]))} :
              i \in 1..Len(Mro(cls))}

\* the field object the most-derived class of cls.__mro__ that declares key
\* holds under it
MostDerivedField(cls, key) ==
    LET declares(c) == \E j \in 1..Len(ClassDict(c)) : ClassDict(c)[j][1] = key
        first == CHOOSE i \in 1..Len(Mro(cls)) :
                    /\ declares(Mro(cls)[i])
                    /\ \A h \in 1..(i - 1) : ~declares(Mro(cls)[h])
        dict == ClassDict(Mro(cls)[first])
    IN  dict[CHOOSE j \in 1..Len(dict) : dict[j][1] = key][2]

\* get_wikidata_fields was the last call
FieldsReturned ==
    /\ ~IsNone(fields_call)
    /\ Val(fields_call).op = "get_wikidata_fields"

\* the last call returned the (key, field) pairs
PairsReturned == FieldsReturned /\ Val(fields_call).arg = "with_keys"

\* each declared key is returned exactly once, with the field of the
\* most-derived class that declares it, and that field is named by the key
KeysOnceMostDerivedNamed ==
    PairsReturned =>
        LET cls == Val(fields_call).cls
            pairs == Val(fields_result).fields
        IN  /\ {pairs[i][1] : i \in 1..Len(pairs)} = DeclaredKeys(cls)
            /\ Len(pairs) = Cardinality(DeclaredKeys(cls))
            /\ \A i \in 1..Len(pairs) :
                  /\ pairs[i][2] = MostDerivedField(cls, pairs[i][1])
                  /\ field_objs[pairs[i][2]].name = Some(pairs[i][1])

\* without keys the fields of the pairs are returned, in the order of the pairs
FieldsWithoutKeys ==
    (FieldsReturned /\ ~PairsReturned) =>
        LET cls == Val(fields_call).cls
            returned == Val(fields_result).fields
            pairs == Val(wikidata_fields[cls])
        IN  /\ Len(returned) = Cardinality(DeclaredKeys(cls))
            /\ \A i \in 1..Len(returned) :
                  /\ returned[i][1] = pairs[i][2]
                  /\ returned[i][1] = MostDerivedField(cls, pairs[i][1])
                  /\ field_objs[returned[i][1]].name = Some(pairs[i][1])

\* a call of get_wikidata_fields on a class whose fields were loaded before
\* loads the same pairs in the same order and changes no field
ReloadChangesNothing ==
    (/\ FieldsReturned'
     /\ fields_call' # fields_call \/ fields_result' # fields_result \/ field_objs' # field_objs
     /\ ~IsNone(wikidata_fields[Val(fields_call').cls]))
    => /\ wikidata_fields' = wikidata_fields
       /\ field_objs' = field_objs

\* C27: get_wikidata_fields returns each attribute key exactly once, with
\* the field of the most-derived class where a subclass redefines a key of a
\* base class; every returned field is named by its key; and a repeated call
\* returns the same keys bound to the same fields in the same order, the
\* fields unchanged.
C27_FieldsOncePerKeyMostDerivedAndStable ==
    /\ [](KeysOnceMostDerivedNamed /\ FieldsWithoutKeys)
    /\ [][ReloadChangesNothing]_vars

\* the subclass returned its pairs after the base class had loaded its own
\* and a query had been compiled: label is bound to the field the subclass
\* declares, and both label fields are named label
C27_Witness ==
    /\ PairsReturned
    /\ Val(fields_call).cls = "ItemSubclass"
    /\ ~IsNone(wikidata_fields["WikidataItemBase"])
    /\ \E i \in 1..Len(Val(fields_result).fields) :
          Val(fields_result).fields[i] = <<"label", "own_label">>
    /\ field_objs["label"].name = Some("label")
    /\ field_objs["own_label"].name = Some("label")
    /\ ~IsNone(field_objs["main"].wikidata_filter)


(* Properties of build_query with count=True. *)

\* a direct call of build_query with count=True has returned
CountCalled == ~IsNone(query_call) /\ Val(query_call).count

\* what build_query returns or raises for the arguments of the call, with
\* minimal as given
QueryOfCallWithMinimal(minimal) ==
    BuildQueryText(Val(query_call).fields,
                   IF IsNone(Val(query_call).values) THEN <<>> ELSE Val(Val(query_call).values),
                   Val(query_call).limit, minimal, Val(query_call).offset,
                   Val(query_call).count, Val(query_call).language)

\* the words of a compiled query from its first SELECT to the first WHERE
\* after it: the outer SELECT, after the prefix declarations
OuterSelect(words) ==
    LET s == Least({i \in 1..Len(words) : words[i] = "SELECT"})
        w == Least({i \in (s + 1)..Len(words) : words[i] = "WHERE"})
    IN  SubSeq(words, s, w - 1)

\* C28: with count=True build_query returns the same query, or raises the
\* same exception, for minimal=True and for minimal=False, and the outer
\* SELECT of the query projects the count of the root variable and nothing
\* else.
C28_CountForcesMinimalAndProjectsCount ==
    CountCalled =>
        /\ Val(query_result) = QueryOfCallWithMinimal(TRUE)
        /\ Val(query_result) = QueryOfCallWithMinimal(FALSE)
        /\ Val(query_result).raised = "" =>
              OuterSelect(CompiledWords) = <<"SELECT", "(COUNT(?main)", "AS", "?count)">>

\* a count was compiled with minimal=False for a model whose own list field
\* is optional and left out of minimal queries: the query does not mention
\* the field, which the same call without count projects
C28_Witness ==
    /\ CountCalled /\ QueryCompiled
    /\ ~Val(query_call).minimal
    /\ Val(query_call).fields[1] =
          Descriptor("extra", "WikidataListField", FALSE, FALSE, <<"P31">>, <<>>, <<>>)
    /\ Val(query_call).values = None
    /\ Val(query_call).limit = Some(2)
    /\ \A i \in 1..Len(CompiledWords) : CompiledWords[i] # "?extra)"
    /\ LET full == BuildQueryText(Val(query_call).fields, <<>>, Some(2), FALSE,
                                  Val(query_call).offset, FALSE, Val(query_call).language)
       IN  \E i \in 1..Len(full.words) : full.words[i] = "?extra)"


(* Properties of the projection and the GROUP BY clause. *)

\* the variables the fragments of the fields of the call are written with
VariablesOfCall ==
    LET fields == Val(query_call).fields
    IN  UNION {{"?" \o fields[i].name, FromName(fields[i]), "?" \o fields[i].entity_name,
                "?" \o fields[i].name \o "_item", "?" \o fields[i].name \o "_itemLabel",
                "?" \o fields[i].name \o "_qid", "?" \o fields[i].entity_name \o "_alt_label"}
               : i \in 1..Len(fields)}

\* the variables the outer SELECT of the query projects bare: the words of
\* the outer SELECT that are a variable and nothing else (a variable inside
\* an aggregate or an AS expression is written with ";" behind it, or "("
\* before it, or ")" behind it)
BareProjected(words) ==
    {OuterSelect(words)[i] : i \in 1..Len(OuterSelect(words))} \cap VariablesOfCall

\* the variables of the GROUP BY clause of the query: the words after GROUP
\* BY up to the first word that is no variable, or to the end
GroupedVariables(words) ==
    {words[j] : j \in {j \in 1..Len(words) :
                          \E i \in 1..(j - 2) :
                              /\ words[i] = "GROUP" /\ words[i + 1] = "BY"
                              /\ \A h \in (i + 2)..j : words[h] \in VariablesOfCall}}

\* C29: every variable the outer SELECT of a compiled query projects bare
\* is listed in the GROUP BY clause of the query, whatever the fields of the
\* model and the value of minimal.
C29_BareProjectedAreGrouped ==
    QueryCompiled => BareProjected(CompiledWords) \subseteq GroupedVariables(CompiledWords)

\* a full query was compiled for a model that declares a scalar field with a
\* property: ?extra is projected bare beside an aggregate, and the GROUP BY
\* clause names ?main in its place
C29_Witness ==
    /\ QueryCompiled
    /\ ~Val(query_call).minimal /\ ~Val(query_call).count
    /\ Val(query_call).values = None
    /\ Val(query_call).fields[1] =
          Descriptor("extra", "WikidataField", FALSE, FALSE, <<"P31">>, <<>>, <<>>)
    /\ "?extra" \in BareProjected(CompiledWords)
    /\ \E i \in 1..Len(CompiledWords) : CompiledWords[i] = "(GROUP_CONCAT(DISTINCT"
    /\ Occurrences(CompiledWords,
                   <<"GROUP", "BY", "?main", "?main", "?mainLabel", "?mainDescription">>) # {}
    /\ "?extra" \notin GroupedVariables(CompiledWords)

\* the classes that inherit to_wikidata_field and to_wikidata_group from
\* WikidataField: the first projects ?<name>, the second groups by from_name
PlainKinds == {"WikidataField", "WikidataCharField"}

\* a bare variable is missing from GROUP BY only in a query that projects a
\* field of the plain classes, and the variable is that of the field
OnlyPlainFieldsUngrouped ==
    QueryCompiled =>
        \A v \in BareProjected(CompiledWords) \ GroupedVariables(CompiledWords) :
            \E i \in 1..Len(Val(query_call).fields) :
                LET f == Val(query_call).fields[i]
                IN  /\ f.kind \in PlainKinds
                    /\ v = "?" \o f.name
                    /\ ~use_minimal(f, Val(query_call).minimal \/ Val(query_call).count)

\* every query that projects a field of the plain classes leaves its
\* variable out of GROUP BY
PlainFieldsNeverGrouped ==
    (QueryCompiled /\ ~Val(query_call).count) =>
        \A i \in 1..Len(Val(query_call).fields) :
            LET f == Val(query_call).fields[i]
            IN  (f.kind \in PlainKinds /\ ~use_minimal(f, Val(query_call).minimal))
                => ("?" \o f.name) \in
                      BareProjected(CompiledWords) \ GroupedVariables(CompiledWords)


(* Properties of the decoding of list fields. *)

\* from_wikidata was called directly on a field of the list classes
ListDecoded == ~IsNone(field_call) /\ Val(field_call).field.kind \in ListKinds

\* the row of the call binds the variable of the field to a value
ListVariableBound ==
    /\ Val(field_call).field.name \in DOMAIN Val(field_call).row
    /\ ~IsNone(Val(field_call).row[Val(field_call).field.name])

\* the raw value of the variable: the empty str when the row has none
ListRawValue ==
    IF ListVariableBound THEN Val(Val(field_call).row[Val(field_call).field.name]) ELSE <<>>

\* parts are the parts of raw between the occurrences of sep, in order:
\* joined by sep they give raw again, and sep is in none of them
PartsOf(parts, raw, sep) ==
    /\ Len(parts) >= 1
    /\ JoinTexts(parts, <<sep>>) = raw
    /\ \A i \in 1..Len(parts) : \A j \in 1..Len(parts[i]) : parts[i][j] # sep

\* a raw value that is not empty is decoded to its parts
NonEmptyValueSplit ==
    (ListDecoded /\ ListRawValue # <<>>) =>
        /\ Val(field_result).raised = ""
        /\ ~IsNone(Val(field_result).value)
        /\ PartsOf(Val(Val(field_result).value), ListRawValue, Val(field_call).field.separator)

\* without a raw value the decoding returns the default of the field
DefaultWithoutValue ==
    (ListDecoded /\ ListRawValue = <<>>) =>
        /\ Val(field_result).raised = ""
        /\ Val(field_result).value = Val(field_call).field.default

\* C30: a list field decodes a raw value that is not empty to its parts
\* between the occurrences of the separator of the field, in order; when the
\* variable is absent or its value is empty the result is the default of the
\* field.
C30_SplitOrDefault == NonEmptyValueSplit /\ DefaultWithoutValue

\* a list field declared with empty=False and a default list of one item
\* has decoded a row without its variable: AttributeError, since the default
\* stands in for the raw value and a list has no split
C30_Witness ==
    /\ ListDecoded
    /\ Val(field_call).field = WikidataListField("WikidataListField", FALSE, "|",
                                                 Some(<<"unknown">>))
    /\ Val(field_call).row = [v \in {"main"} |-> Some(EntityUri(<<"Q", "4", "2">>))]
    /\ Val(field_result).raised = "AttributeError"

\* the decoding returns the default of the field without a raw value
\* whenever that default is None or empty, as it is for every field declared
\* with empty=True or without a default
DefaultWithoutValueUnlessTruthy ==
    (ListDecoded /\ ListRawValue = <<>> /\ ~Truthy(Val(field_call).field.default)) =>
        /\ Val(field_result).raised = ""
        /\ Val(field_result).value = Val(field_call).field.default

\* an empty value bound to the variable gives the default, whatever it is
DefaultForEmptyValue ==
    (ListDecoded /\ ListVariableBound /\ ListRawValue = <<>>) =>
        /\ Val(field_result).raised = ""
        /\ Val(field_result).value = Val(field_call).field.default

\* a value was split on "," by a field declared with that separator
CommaSeparated ==
    /\ ListDecoded
    /\ Val(field_call).field.separator = ","
    /\ ListRawValue = <<"a", ",", "b", "|", "c">>
    /\ Val(field_result).value = Some(<< <<"a">>, <<"b", "|", "c">> >>)

====
